---- MODULE Spec2Model ----
(***************************************************************************)
(* Privacy/security core of the interview backend: the hash-chained audit  *)
(* log (backend/security/audit_logger.py), the key store                   *)
(* (backend/security/key_store.py), field-level encryption                 *)
(* (backend/security/field_encryption.py), the PII vault                   *)
(* (backend/privacy/pii_vault.py) and roles with response filtering        *)
(* (backend/security/rbac.py).                                             *)
(*                                                                         *)
(* Python None is the string "None" (NoneVal).  SHA-256 is modelled as a   *)
(* collision-free function that wraps its input, AES-GCM as an ideal AEAD  *)
(* whose ciphertext remembers the key, nonce, plaintext and associated     *)
(* data it was sealed with.                                                *)
(***************************************************************************)
EXTENDS Naturals, Integers, Sequences, FiniteSets, TLC

VARIABLES
    \* ---- audit log (audit_logger.py) ----
    store,        \* db.access_audit_logs, in insertion order
    last_hash,    \* AuditLogger._last_hash of the live logger
    clock,        \* datetime.utcnow(), in ticks
    verified,     \* outcome of the last verify_chain_integrity() call
    audit_hist,   \* history: how the stored log came about
    audit_out,    \* what the last call on the live logger did
    \* ---- key store (key_store.py) ----
    ks_mode,      \* which KeyStore get_key_store() built: local, aws or gcp
    metadata,     \* key_metadata.json of the local store
    key_files,    \* key_<version>.bin of the local store (NoKey: no file)
    entropy,      \* randomness drawn so far (keys and nonces are fresh)
    ks_out,       \* what the last key store call returned
    ks_hist,      \* history: keys handed out, versions used, files lost
    \* ---- field encryption (field_encryption.py) ----
    values,       \* EncryptedValues held by callers, with their history
    dec,          \* outcome of the last decrypt_field call
    doc,          \* the document passed through *_document_fields
    doc_call,     \* the last encrypt_/decrypt_document_fields calls
    \* ---- PII vault (pii_vault.py) ----
    pii_mode,     \* PII_STORAGE_MODE
    vault,        \* the PIIVault singleton: its key and key_version
    vault_db,     \* database.pii_vault, in insertion order
    now,          \* datetime.utcnow() as the vault reads it, in days
    vault_out,    \* what the last vault call returned
    \* ---- access control (rbac.py) ----
    rbac_out,     \* the last two filter_response_by_role calls
    rbac_perm,    \* the last Role.has_permission call
    \* ---- PII redactor (pii_redactor.py) ----
    entity_counters,  \* PIIRedactor.entity_counters of the shared singleton
    redact_calls,     \* the redact_pii calls in progress, one per thread
    redact_out,       \* what the last validate_redaction call returned
    \* ---- concurrent callers ----
    log_calls,        \* the AuditLogger.log calls in progress, one per thread
    key_calls,        \* the LocalKeyStore calls in progress, one per thread
    pii_held          \* the vault entry a direct caller of encrypt_pii holds

auditVars == <<store, last_hash, verified, audit_hist, audit_out>>
keyVars == <<ks_mode, metadata, key_files, entropy, ks_out, ks_hist>>
cipherVars == <<values, dec>>
docVars == <<doc, doc_call>>
vaultVars == <<pii_mode, vault, vault_db, now, vault_out>>
rbacVars == <<rbac_out, rbac_perm>>
redactVars == <<entity_counters, redact_calls, redact_out>>
extVars == <<redactVars, log_calls, key_calls, pii_held>>

vars == <<store, last_hash, clock, verified, audit_hist, audit_out,
          ks_mode, metadata, key_files, entropy, ks_out, ks_hist,
          values, dec, docVars, vaultVars, rbacVars, extVars>>

NoneVal == "None"

\* ------------------------------------------------------------------------
\* Bounds of the model
\* ------------------------------------------------------------------------
MaxEntries == 3
MaxTampers == 1
MaxVersion == 3
MaxEntropy == 6
MaxValues == 1
MaxVaultEntries == 1
MaxTime == 9

\* ------------------------------------------------------------------------
\* Audit log
\* ------------------------------------------------------------------------
Actors == {"u1"}
Actions == {"read", "decrypt"}
Targets == {"d1"}

\* verify_chain_integrity(self, limit: int = 1000)
DefaultLimit == 1000

\* datetime.isoformat()
IsoFormat(t) == "T" \o ToString(t)

\* hashlib.sha256(...).hexdigest(): collision-free
Sha256(s) == "sha256(" \o s \o ")"

\* f"{self._last_hash or ''}"
OrEmpty(h) == IF h = NoneVal THEN "" ELSE h

\* AuditLogger._compute_hash: the hash input ends with the logger's
\* in-memory _last_hash, whatever entry is being hashed.
compute_hash(log_entry) ==
    Sha256(IsoFormat(log_entry.timestamp)
           \o log_entry.actor_id
           \o log_entry.action
           \o log_entry.target_id
           \o OrEmpty(last_hash))

NoVerify == [done |-> FALSE, ok |-> TRUE, break_pos |-> 0, break_id |-> 0,
             n |-> 0, pristine |-> FALSE, after_tamper |-> 0, tampered_pos |-> 0]

\* No call made yet on the live logger
NoAuditOut ==
    [op |-> "none", just |-> NoneVal, raised |-> FALSE,
     insert_failed |-> FALSE, wrote |-> 0,
     before_store |-> << >>, before_hash |-> NoneVal,
     after_failure |-> FALSE, failed_hash |-> NoneVal, results |-> << >>]

InitAudit ==
    /\ store = << >>
    /\ audit_out = NoAuditOut
    /\ last_hash = NoneVal
    /\ clock = 0
    /\ verified = NoVerify
    /\ audit_hist = [pristine |-> TRUE, untampered |-> TRUE,
                     intact |-> FALSE, tampered |-> 0, ntampers |-> 0]

\* actor_id or "anonymous"
OrAnonymous(actor_id) == IF actor_id = NoneVal THEN "anonymous" ELSE actor_id

\* The entry AuditLogger.log builds and hashes against _last_hash
LogEntry(action, success, actor_id, target_id, justification) ==
    LET timestamp == clock + 1
        log_entry == [id |-> Len(store) + 1,
                      actor_id |-> OrAnonymous(actor_id),
                      action |-> action,
                      target_id |-> target_id,
                      justification |-> justification,
                      success |-> success,
                      timestamp |-> timestamp]
        entry_hash == compute_hash(log_entry)
    IN [id |-> log_entry.id,
        actor_id |-> log_entry.actor_id,
        action |-> action,
        target_id |-> target_id,
        justification |-> justification,
        success |-> success,
        timestamp |-> timestamp,
        entry_hash |-> entry_hash,
        prev_hash |-> last_hash]

\* What a call leaves in audit_out: whether it raised to its caller,
\* whether insert_one failed in it, the id it wrote, the log and the
\* _last_hash it started from, and whether insert_one had failed in the
\* call before it.
CallRecord(op, justification, raised, insert_failed, wrote, results) ==
    [op |-> op, just |-> justification, raised |-> raised,
     insert_failed |-> insert_failed, wrote |-> wrote,
     before_store |-> store, before_hash |-> last_hash,
     after_failure |-> audit_out.insert_failed,
     failed_hash |-> audit_out.before_hash,
     results |-> results]

\* The body of AuditLogger.log with _last_hash assigned before insert_one
WriteEntryHashFirst(op, action, success, actor_id, target_id, justification, insert_ok, results) ==
    /\ LET full == LogEntry(action, success, actor_id, target_id,
                            justification)
       IN /\ last_hash' = full.entry_hash
          /\ IF insert_ok
             THEN /\ store' = Append(store, full)
                  /\ clock' = full.timestamp
                  /\ audit_out' = CallRecord(op, justification, FALSE, FALSE,
                                             full.id, results)
             ELSE /\ UNCHANGED <<store, clock>>
                  /\ audit_out' = CallRecord(op, justification,
                                             op # "query_logs", TRUE, 0,
                                             results)
    /\ audit_hist' = [audit_hist EXCEPT !.intact = FALSE, !.tampered = 0]
    /\ verified' = NoVerify
    /\ UNCHANGED <<keyVars, cipherVars, docVars, vaultVars, rbacVars, extVars>>

\* The body of AuditLogger.log as called by op: insert the entry and then
\* remember its hash; when insert_one raises, the except clause re-raises
\* and nothing was assigned.  query_logs swallows what log raises; the
\* other callers pass it on.  Callers stop at MaxEntries stored entries.
WriteEntry(op, action, success, actor_id, target_id, justification, insert_ok, results) ==
    /\ LET full == LogEntry(action, success, actor_id, target_id,
                            justification)
       IN IF insert_ok
          THEN /\ store' = Append(store, full)
               /\ last_hash' = full.entry_hash
               /\ clock' = full.timestamp
               /\ audit_out' = CallRecord(op, justification, FALSE, FALSE,
                                          full.id, results)
          ELSE /\ UNCHANGED <<store, last_hash, clock>>
               /\ audit_out' = CallRecord(op, justification,
                                          op # "query_logs", TRUE, 0, results)
    /\ audit_hist' = [audit_hist EXCEPT !.intact = FALSE, !.tampered = 0]
    /\ verified' = NoVerify
    /\ UNCHANGED <<keyVars, cipherVars, docVars, vaultVars, rbacVars, extVars>>

\* AuditLogger.log: build the entry, hash it against _last_hash, insert it,
\* then remember its hash.
Log(action, success, actor_id, target_id, justification) ==
    /\ Len(store) < MaxEntries
    /\ WriteEntry("log", action, success, actor_id, target_id, justification,
                  TRUE, << >>)

\* AuditLogger.log when collection.insert_one raises
LogInsertFails(action, success, actor_id, target_id, justification) ==
    /\ Len(store) < MaxEntries
    /\ WriteEntry("log", action, success, actor_id, target_id, justification,
                  FALSE, << >>)

\* len(justification.strip()) of the reasons callers give
Strip(text) ==
    CASE text = "          " -> ""
      [] text = "   too short   " -> "too short"
      [] OTHER -> text

\* log_decrypt: "min 10 chars"
MinJustification == 10

\* not justification or len(justification.strip()) < 10
TooShort(justification) ==
    \/ justification = NoneVal
    \/ justification = ""
    \/ Len(Strip(justification)) < MinJustification

\* A call that raised before it reached AuditLogger.log
Raises(op, justification) ==
    /\ audit_out' = CallRecord(op, justification, TRUE, FALSE, 0, << >>)
    /\ audit_hist' = [audit_hist EXCEPT !.intact = FALSE, !.tampered = 0]
    /\ verified' = NoVerify
    /\ UNCHANGED <<store, last_hash, clock, keyVars, cipherVars, docVars,
                   vaultVars, rbacVars, extVars>>

\* AuditLogger.log_decrypt(target_collection, target_id, fields_decrypted,
\* justification, success)
LogDecrypt(target_id, justification, success) ==
    IF TooShort(justification)
    THEN Raises("log_decrypt", justification)
    ELSE /\ Len(store) < MaxEntries
         /\ WriteEntry("log_decrypt", "decrypt", success, NoneVal, target_id,
                       justification, TRUE, << >>)

\* AuditLogger.log_delete(target_collection, target_id, reason, success):
\* the reason is passed on as it is.
LogDelete(target_id, reason, success) ==
    /\ Len(store) < MaxEntries
    /\ WriteEntry("log_delete", "delete", success, NoneVal, target_id, reason,
                  TRUE, << >>)

\* AuditLogger.__init__ in a new process over the same database
Restart ==
    /\ last_hash # NoneVal
    /\ last_hash' = NoneVal
    /\ audit_hist' = [audit_hist EXCEPT !.pristine = FALSE]
    /\ verified' = NoVerify
    /\ audit_out' = NoAuditOut
    /\ UNCHANGED <<store, clock, keyVars, cipherVars, docVars, vaultVars, rbacVars, extVars>>

\* collection.find().sort("timestamp", 1): stable insertion sort
RECURSIVE InsertByTimestamp(_, _)
InsertByTimestamp(sorted, e) ==
    IF sorted = << >> THEN <<e>>
    ELSE IF sorted[Len(sorted)].timestamp <= e.timestamp THEN Append(sorted, e)
    ELSE Append(InsertByTimestamp(SubSeq(sorted, 1, Len(sorted) - 1), e),
                sorted[Len(sorted)])

RECURSIVE SortByTimestamp(_)
SortByTimestamp(s) ==
    IF s = << >> THEN << >>
    ELSE InsertByTimestamp(SortByTimestamp(SubSeq(s, 1, Len(s) - 1)), s[Len(s)])

\* .limit(limit)
Limit(s, limit) == IF Len(s) <= limit THEN s ELSE SubSeq(s, 1, limit)

\* Position of the entry with the given id in a list (0 when absent)
PosOf(logs, id) ==
    IF \E i \in 1..Len(logs) : logs[i].id = id
    THEN CHOOSE i \in 1..Len(logs) : logs[i].id = id
    ELSE 0

\* WalkChain without the recomputation of each entry's hash
RECURSIVE WalkChainLinksOnly(_, _, _)
WalkChainLinksOnly(logs, i, prev_hash) ==
    IF i > Len(logs) THEN 0
    ELSE IF logs[i].prev_hash # prev_hash THEN i
    ELSE WalkChainLinksOnly(logs, i + 1, logs[i].entry_hash)

\* The loop of verify_chain_integrity: 0 when every entry passes, else the
\* position of the first entry that fails (the loop returns there).
RECURSIVE WalkChain(_, _, _)
WalkChain(logs, i, prev_hash) ==
    IF i > Len(logs) THEN 0
    ELSE IF logs[i].prev_hash # prev_hash THEN i
    ELSE IF compute_hash(logs[i]) # logs[i].entry_hash THEN i
    ELSE WalkChain(logs, i + 1, logs[i].entry_hash)

\* AuditLogger.verify_chain_integrity(limit)
verify_chain_integrity(limit) ==
    LET logs == Limit(SortByTimestamp(store), limit)
        brk == WalkChain(logs, 1, NoneVal)
    IN [ok |-> brk = 0,
        break_pos |-> brk,
        break_id |-> IF brk = 0 THEN 0 ELSE logs[brk].id,
        logs |-> logs]

VerifyChainIntegrity ==
    /\ LET r == verify_chain_integrity(DefaultLimit)
       IN /\ verified' = [done |-> TRUE,
                          ok |-> r.ok,
                          break_pos |-> r.break_pos,
                          break_id |-> r.break_id,
                          n |-> Len(store),
                          pristine |-> audit_hist.pristine,
                          after_tamper |-> IF audit_hist.intact
                                           THEN audit_hist.tampered ELSE 0,
                          tampered_pos |-> IF audit_hist.intact
                                           THEN PosOf(r.logs, audit_hist.tampered)
                                           ELSE 0]
          /\ audit_hist' = IF audit_hist.tampered = 0
                           THEN [audit_hist EXCEPT !.intact = r.ok]
                           ELSE audit_hist
    /\ audit_out' = NoAuditOut
    /\ UNCHANGED <<store, last_hash, clock, keyVars, cipherVars, docVars, vaultVars, rbacVars, extVars>>

\* Someone with write access to the collection changes one stored field.
TamperAction(i, a) ==
    /\ i \in 1..Len(store)
    /\ audit_hist.ntampers < MaxTampers
    /\ store[i].action # a
    /\ store' = [store EXCEPT ![i].action = a]
    /\ audit_hist' = [audit_hist EXCEPT
                        !.pristine = FALSE, !.untampered = FALSE,
                        !.intact = audit_hist.intact /\ audit_hist.tampered = 0,
                        !.tampered = store[i].id,
                        !.ntampers = @ + 1]
    /\ verified' = NoVerify
    /\ audit_out' = NoAuditOut
    /\ UNCHANGED <<last_hash, clock, keyVars, cipherVars, docVars, vaultVars, rbacVars, extVars>>

TamperTimestamp(i, t) ==
    /\ i \in 1..Len(store)
    /\ audit_hist.ntampers < MaxTampers
    /\ store[i].timestamp # t
    /\ store' = [store EXCEPT ![i].timestamp = t]
    /\ audit_hist' = [audit_hist EXCEPT
                        !.pristine = FALSE, !.untampered = FALSE,
                        !.intact = audit_hist.intact /\ audit_hist.tampered = 0,
                        !.tampered = store[i].id,
                        !.ntampers = @ + 1]
    /\ verified' = NoVerify
    /\ audit_out' = NoAuditOut
    /\ UNCHANGED <<last_hash, clock, keyVars, cipherVars, docVars, vaultVars, rbacVars, extVars>>

\* query_logs(self, ..., limit: int = 100, skip: int = 0)
QueryLimit == 100

\* collection.find(query).sort("timestamp", -1).skip(0).limit(limit) for a
\* query on action (None: every entry)
RECURSIVE Reverse(_)
Reverse(s) ==
    IF s = << >> THEN << >>
    ELSE Append(Reverse(SubSeq(s, 2, Len(s))), s[1])

FindLogs(action) ==
    Limit(Reverse(SortByTimestamp(
              SelectSeq(store, LAMBDA e : action = NoneVal \/ e.action = action))),
          QueryLimit)

\* AuditLogger.query_logs: read the matching entries, log the query inside
\* try/except: pass, return the entries.
QueryLogs(action, insert_ok) ==
    /\ Len(store) < MaxEntries
    /\ WriteEntry("query_logs", "audit_query", TRUE, NoneVal, NoneVal, NoneVal,
                  insert_ok, FindLogs(action))

NextAudit ==
    \/ \E action \in Actions, actor_id \in Actors, target_id \in Targets :
          Log(action, TRUE, actor_id, target_id, NoneVal)
    \/ Restart
    \/ VerifyChainIntegrity
    \/ \E i \in 1..MaxEntries, a \in Actions \cup {"write"} : TamperAction(i, a)
    \/ \E i \in 1..MaxEntries, t \in 0..MaxEntries : TamperTimestamp(i, t)


\* ------------------------------------------------------------------------
\* Key store
\* ------------------------------------------------------------------------

\* KEY_VERSION = os.getenv('KEY_VERSION', 'v1')
KEY_VERSION == "v1"

\* f'v{n}'
VersionStr(n) == "v" \o ToString(n)

\* Versions the local store can come to hold
AllVersions == {VersionStr(n) : n \in 1..MaxVersion}

\* int(version.replace('v', ''))
VersionNum(v) == CHOOSE n \in 0..MaxVersion : VersionStr(n) = v

NoKey == 0

NoKsOut == [op |-> "none", version |-> NoneVal, key |-> NoKey,
            error |-> FALSE, missing |-> FALSE, was_used |-> FALSE]

\* LocalKeyStore._ensure_metadata on an empty key directory
InitKeys ==
    /\ metadata = [current_version |-> KEY_VERSION,
                   keys |-> [v \in AllVersions |-> "absent"]]
    /\ key_files = [v \in AllVersions |-> NoKey]
    /\ entropy = 0
    /\ ks_out = NoKsOut
    /\ ks_hist = [issued |-> [v \in AllVersions |-> {}],
                  used |-> {},
                  lost |-> FALSE,
                  rotated |-> NoneVal,
                  before |-> NoneVal]

\* The key store as a value, so that one handler can thread it through the
\* calls it makes.
KS == [metadata |-> metadata, key_files |-> key_files, entropy |-> entropy]

\* LocalKeyStore.get_data_key: a missing key file is generated, written and
\* recorded as active; the file's content is returned.
LocalGetDataKey(ks, key_version) ==
    IF ks.key_files[key_version] = NoKey
    THEN LET data_key == ks.entropy + 1
         IN [key |-> data_key,
             ks |-> [metadata |-> [ks.metadata EXCEPT
                                     !.keys[key_version] = "active"],
                     key_files |-> [ks.key_files EXCEPT
                                     ![key_version] = data_key],
                     entropy |-> data_key]]
    ELSE [key |-> ks.key_files[key_version], ks |-> ks]

\* AWSKMSKeyStore.get_data_key: kms.generate_data_key makes a new data key
\* on every call and its wrapped form is dropped.
AwsGetDataKey(ks, key_version) ==
    [key |-> ks.entropy + 1, ks |-> [ks EXCEPT !.entropy = @ + 1]]

\* GCPKMSKeyStore.get_data_key: secrets.token_bytes(32)
GcpGetDataKey(ks, key_version) ==
    [key |-> ks.entropy + 1, ks |-> [ks EXCEPT !.entropy = @ + 1]]

\* KeyStore.get_data_key of the configured variant
get_data_key(ks, key_version) ==
    CASE ks_mode = "local" -> LocalGetDataKey(ks, key_version)
      [] ks_mode = "aws" -> AwsGetDataKey(ks, key_version)
      [] ks_mode = "gcp" -> GcpGetDataKey(ks, key_version)

\* KeyStore.get_current_version of the configured variant
get_current_version(ks) ==
    IF ks_mode = "local" THEN ks.metadata.current_version ELSE KEY_VERSION

\* LocalKeyStore.rotate_key
LocalRotateKey(ks) ==
    LET current_num == VersionNum(ks.metadata.current_version)
        new_version == VersionStr(current_num + 1)
        old_version == ks.metadata.current_version
        keys == IF ks.metadata.keys[old_version] # "absent"
                THEN [ks.metadata.keys EXCEPT ![old_version] = "deprecated"]
                ELSE ks.metadata.keys
    IN [version |-> new_version,
        ks |-> [ks EXCEPT !.metadata = [current_version |-> new_version,
                                        keys |-> keys]]]

\* AWSKMSKeyStore.rotate_key / GCPKMSKeyStore.rotate_key:
\* f"v{int(datetime.utcnow().timestamp())}", nothing is stored
KmsRotateKey(ks) ==
    [version |-> VersionStr(1700000000 + clock), ks |-> ks]

rotate_key(ks) ==
    IF ks_mode = "local" THEN LocalRotateKey(ks) ELSE KmsRotateKey(ks)

\* Bookkeeping of a get_data_key call made by any handler
Issued(hist, key_version, key) ==
    [hist EXCEPT !.issued[key_version] = @ \cup {key}]

SetKS(ks) ==
    /\ metadata' = ks.metadata
    /\ key_files' = ks.key_files
    /\ entropy' = ks.entropy

\* A caller asks the store for the key of a version.
GetDataKey(key_version) ==
    /\ entropy < MaxEntropy
    /\ LET r == get_data_key(KS, key_version)
       IN /\ SetKS(r.ks)
          /\ ks_out' = [NoKsOut EXCEPT
                           !.op = "get_data_key",
                           !.version = key_version,
                           !.key = r.key,
                           !.missing = (ks_mode = "local"
                                        /\ key_files[key_version] = NoKey),
                           !.was_used = key_version \in ks_hist.used]
          /\ ks_hist' = Issued(ks_hist, key_version, r.key)
    /\ UNCHANGED <<ks_mode, clock, auditVars, cipherVars, docVars, vaultVars, rbacVars, extVars>>

\* A caller rotates the key.
RotateKey ==
    /\ ks_mode = "local" => VersionNum(metadata.current_version) < MaxVersion
    /\ LET r == rotate_key(KS)
       IN /\ SetKS(r.ks)
          /\ ks_out' = [NoKsOut EXCEPT
                           !.op = "rotate_key",
                           !.version = r.version]
          /\ ks_hist' = [ks_hist EXCEPT
                            !.rotated = r.version,
                            !.before = get_current_version(KS)]
    /\ UNCHANGED <<ks_mode, clock, auditVars, cipherVars, docVars, vaultVars, rbacVars, extVars>>

\* The key file of a version disappears from the key directory.
LoseKeyFile(key_version) ==
    /\ ks_mode = "local"
    /\ ~ks_hist.lost
    /\ key_files[key_version] # NoKey
    /\ key_files' = [key_files EXCEPT ![key_version] = NoKey]
    /\ ks_hist' = [ks_hist EXCEPT !.lost = TRUE]
    /\ ks_out' = NoKsOut
    /\ UNCHANGED <<ks_mode, metadata, entropy, clock, auditVars, cipherVars, docVars, vaultVars, rbacVars, extVars>>


\* ------------------------------------------------------------------------
\* Field encryption
\* ------------------------------------------------------------------------

\* Python values: t is the type, v the text of the value (for a number, a
\* list, a dict: its JSON text), utf8 whether a bytes value is valid UTF-8.
PyStr(text) == [t |-> "str", v |-> text, utf8 |-> TRUE]
PyBytes(text, utf8) == [t |-> "bytes", v |-> text, utf8 |-> utf8]
PyJson(type, text) == [t |-> type, v |-> text, utf8 |-> TRUE]
NoPlain == [t |-> "none", v |-> "", utf8 |-> TRUE]

\* json.dumps(plaintext): the JSON text of the value; a tuple is written as
\* a list.
JsonDumps(value) == value.v

\* The texts json.loads accepts, with the type of the value it returns
JsonType(text) ==
    CASE text = "123" -> "int"
      [] text = "true" -> "bool"
      [] text = "[1, 2]" -> "list"
      [] text = "{\"a\": 1}" -> "dict"
      [] OTHER -> "JSONDecodeError"

\* json.loads(text)
JsonLoads(text) == PyJson(JsonType(text), text)

\* Raw bytes: the text they spell and whether they are valid UTF-8
Bytes(text, utf8) == [text |-> text, utf8 |-> utf8]

\* encrypt_field, "Prepare plaintext"
PlaintextBytes(plaintext) ==
    IF plaintext.t = "bytes" THEN Bytes(plaintext.v, plaintext.utf8)
    ELSE IF plaintext.t = "str" THEN Bytes(plaintext.v, TRUE)
    ELSE Bytes(JsonDumps(plaintext), TRUE)

\* decrypt_field, the tail: decode as UTF-8, then try JSON, else the text;
\* bytes that are not UTF-8 are returned as bytes.
DecodePlaintext(plaintext_bytes) ==
    IF ~plaintext_bytes.utf8 THEN PyBytes(plaintext_bytes.text, FALSE)
    ELSE IF JsonType(plaintext_bytes.text) # "JSONDecodeError"
         THEN JsonLoads(plaintext_bytes.text)
         ELSE PyStr(plaintext_bytes.text)

\* base64.b64encode(data).decode('utf-8'): the canonical text of the bytes
B64Encode(raw) == [raw |-> raw, slack |-> 0]

\* base64.b64decode(text): characters outside the alphabet and the unused
\* bits before the padding (slack) are dropped
B64Decode(text) == text.raw

\* The keys of an associated-data dict in sorted order
AadKeyOrder == <<"field_name", "key_version", "session", "timestamp">>

EmptyDict == [k \in {} |-> ""]

RECURSIVE DumpsFrom(_, _)
DumpsFrom(d, i) ==
    IF i > Len(AadKeyOrder) THEN << >>
    ELSE IF AadKeyOrder[i] \in DOMAIN d
         THEN <<<<AadKeyOrder[i], d[AadKeyOrder[i]]>>>> \o DumpsFrom(d, i + 1)
         ELSE DumpsFrom(d, i + 1)

\* json.dumps(associated_data, sort_keys=True).encode('utf-8')
AadBytes(d) == DumpsFrom(d, 1)

\* AESGCM(key).encrypt(nonce, data, aad): ideal AEAD
AesGcmEncrypt(key, nonce, data, aad) ==
    [key |-> key, nonce |-> nonce, data |-> data, aad |-> aad, flipped |-> FALSE]

\* AESGCM(key).decrypt(nonce, ct, aad): InvalidTag unless the key, the
\* nonce and the associated data are those the ciphertext was sealed with
AesGcmDecrypt(key, nonce, ct, aad) ==
    IF ~ct.flipped /\ ct.key = key /\ ct.nonce = nonce /\ ct.aad = aad
    THEN [ok |-> TRUE, data |-> ct.data]
    ELSE [ok |-> FALSE, data |-> Bytes("", TRUE)]

\* Python truthiness of an optional string
Truthy(x) == x # NoneVal /\ x # ""

NoDec == [done |-> FALSE, idx |-> 0, expected |-> NoneVal, ok |-> FALSE,
          value |-> NoPlain]

InitCipherVars ==
    /\ values = << >>
    /\ dec = NoDec

\* encrypt_field(plaintext, key_version, associated_data): the value it
\* returns and the key store it leaves.  associated_data None is EmptyDict
\* (the code reads it as `associated_data or {}`).
encrypt_field(ks, plaintext, key_version, associated_data) ==
    LET version == IF key_version = NoneVal
                   THEN get_current_version(ks) ELSE key_version
        got == get_data_key(ks, version)
        plaintext_bytes == PlaintextBytes(plaintext)
        aad_dict == associated_data @@
                    [k \in {"timestamp", "key_version"} |->
                        IF k = "timestamp" THEN IsoFormat(clock) ELSE version]
        aad_bytes == AadBytes(aad_dict)
        nonce == got.ks.entropy + 1
        ciphertext == AesGcmEncrypt(got.key, nonce, plaintext_bytes, aad_bytes)
    IN [value |-> [ciphertext |-> B64Encode(ciphertext),
                   nonce |-> B64Encode(nonce),
                   key_version |-> version,
                   algorithm |-> "AES-256-GCM",
                   associated_data |-> aad_dict,
                   encrypted_at |-> clock],
        key |-> got.key,
        ks |-> [got.ks EXCEPT !.entropy = nonce]]

\* decrypt_field without the comparison of key_version to
\* expected_key_version
decrypt_field_unchecked_version(ks, encrypted_data, expected_key_version) ==
    LET got == get_data_key(ks, encrypted_data.key_version)
        opened == AesGcmDecrypt(got.key,
                                B64Decode(encrypted_data.nonce),
                                B64Decode(encrypted_data.ciphertext),
                                AadBytes(encrypted_data.associated_data))
    IN IF opened.ok
       THEN [ok |-> TRUE, value |-> DecodePlaintext(opened.data),
             key |-> got.key, ks |-> got.ks]
       ELSE [ok |-> FALSE, value |-> NoPlain, key |-> got.key, ks |-> got.ks]

\* decrypt_field(encrypted_data, expected_key_version): ok and the value, or
\* the RuntimeError every failure is turned into, and the key store it leaves
decrypt_field(ks, encrypted_data, expected_key_version) ==
    LET ciphertext == B64Decode(encrypted_data.ciphertext)
        nonce == B64Decode(encrypted_data.nonce)
        key_version == encrypted_data.key_version
        associated_data == encrypted_data.associated_data
    IN IF Truthy(expected_key_version) /\ key_version # expected_key_version
       THEN [ok |-> FALSE, value |-> NoPlain, key |-> NoKey, ks |-> ks]
       ELSE LET got == get_data_key(ks, key_version)
                aad_bytes == AadBytes(associated_data)
                opened == AesGcmDecrypt(got.key, nonce, ciphertext, aad_bytes)
            IN IF opened.ok
               THEN [ok |-> TRUE, value |-> DecodePlaintext(opened.data),
                     key |-> got.key, ks |-> got.ks]
               ELSE [ok |-> FALSE, value |-> NoPlain,
                     key |-> got.key, ks |-> got.ks]

\* A caller encrypts a value and keeps the result.
EncryptField(plaintext, key_version, associated_data) ==
    /\ Len(values) < MaxValues
    /\ entropy + 2 <= MaxEntropy
    /\ LET r == encrypt_field(KS, plaintext, key_version, associated_data)
       IN /\ SetKS(r.ks)
          /\ values' = Append(values, [ev |-> r.value,
                                       orig |-> r.value,
                                       plaintext |-> plaintext,
                                       key |-> r.key,
                                       ntampers |-> 0])
          /\ ks_hist' = [Issued(ks_hist, r.value.key_version, r.key) EXCEPT
                            !.used = @ \cup {r.value.key_version}]
    /\ dec' = NoDec
    /\ ks_out' = NoKsOut
    /\ UNCHANGED <<ks_mode, clock, auditVars, docVars, vaultVars, rbacVars, extVars>>

\* A caller decrypts a value it holds.
DecryptField(i, expected_key_version) ==
    /\ i \in 1..Len(values)
    /\ entropy < MaxEntropy
    /\ LET r == decrypt_field(KS, values[i].ev, expected_key_version)
       IN /\ SetKS(r.ks)
          /\ dec' = [done |-> TRUE, idx |-> i,
                     expected |-> expected_key_version,
                     ok |-> r.ok, value |-> r.value]
          /\ ks_hist' = IF r.key = NoKey THEN ks_hist
                        ELSE Issued(ks_hist, values[i].ev.key_version, r.key)
    /\ ks_out' = NoKsOut
    /\ UNCHANGED <<ks_mode, clock, auditVars, values, docVars, vaultVars, rbacVars, extVars>>

\* Number of changes made so far to the first n stored values
RECURSIVE TamperCount(_)
TamperCount(n) == IF n = 0 THEN 0 ELSE values[n].ntampers + TamperCount(n - 1)

\* Changes to a stored EncryptedValue by someone with access to the storage
Tampered(i, ev) ==
    /\ values' = [values EXCEPT ![i].ev = ev, ![i].ntampers = @ + 1]
    /\ dec' = NoDec
    /\ UNCHANGED <<keyVars, clock, auditVars, docVars, vaultVars, rbacVars, extVars>>

\* A bit of the ciphertext bytes is flipped.
TamperCiphertext(i) ==
    /\ i \in 1..Len(values)
    /\ TamperCount(Len(values)) < MaxTampers
    /\ ~values[i].ev.ciphertext.raw.flipped
    /\ Tampered(i, [values[i].ev EXCEPT !.ciphertext.raw.flipped = TRUE])

\* The stored base64 text of the ciphertext is changed in characters or bits
\* that decoding drops.
ReencodeCiphertext(i) ==
    /\ i \in 1..Len(values)
    /\ TamperCount(Len(values)) < MaxTampers
    /\ values[i].ev.ciphertext.slack = 0
    /\ Tampered(i, [values[i].ev EXCEPT !.ciphertext.slack = 1])

\* The nonce bytes are changed.
TamperNonce(i) ==
    /\ i \in 1..Len(values)
    /\ TamperCount(Len(values)) < MaxTampers
    /\ values[i].ev.nonce.raw = values[i].orig.nonce.raw
    /\ Tampered(i, [values[i].ev EXCEPT !.nonce.raw = 0])

\* The stored base64 text of the nonce is changed in characters that
\* decoding drops.
ReencodeNonce(i) ==
    /\ i \in 1..Len(values)
    /\ TamperCount(Len(values)) < MaxTampers
    /\ values[i].ev.nonce.slack = 0
    /\ Tampered(i, [values[i].ev EXCEPT !.nonce.slack = 1])

\* One entry of the stored associated_data is set to another value.
TamperAad(i, k, val) ==
    /\ i \in 1..Len(values)
    /\ TamperCount(Len(values)) < MaxTampers
    /\ k \in DOMAIN values[i].ev.associated_data
    /\ values[i].ev.associated_data[k] # val
    /\ Tampered(i, [values[i].ev EXCEPT !.associated_data[k] = val])

\* One entry of the stored associated_data is removed.
DropAad(i, k) ==
    /\ i \in 1..Len(values)
    /\ TamperCount(Len(values)) < MaxTampers
    /\ k \in DOMAIN values[i].ev.associated_data
    /\ LET ad == values[i].ev.associated_data
       IN Tampered(i, [values[i].ev EXCEPT
                         !.associated_data =
                             [x \in DOMAIN ad \ {k} |-> ad[x]]])

\* ------------------------------------------------------------------------
\* Documents with encrypted fields
\* ------------------------------------------------------------------------

\* A document is its plaintext keys (fields), its "_encrypted_<name>" keys
\* (enc) and its "_encryption_metadata" key (meta, when present).
FieldNames == {"transcript", "score", "notes"}

PyNone == [t |-> "NoneType", v |-> "null", utf8 |-> TRUE]

NoMeta == [present |-> FALSE, encrypted_fields |-> << >>, key_version |-> NoneVal]

\* dict without a key / with a key set
Without(f, k) == [x \in DOMAIN f \ {k} |-> f[x]]
With(f, k, val) == [x \in DOMAIN f \cup {k} |-> IF x = k THEN val ELSE f[x]]

PlainDoc(fields) == [fields |-> fields, enc |-> EmptyDict, meta |-> NoMeta]

\* The documents callers start from
InitialDocs ==
    {PlainDoc([k \in {"transcript", "score"} |->
                  IF k = "transcript" THEN PyStr("call 555-000-1111")
                  ELSE PyJson("int", "91")]),
     PlainDoc([k \in {"transcript", "notes"} |->
                  IF k = "transcript" THEN PyStr("hello") ELSE PyNone])}

\* Elements of a sequence
Range(seq) == {seq[i] : i \in 1..Len(seq)}

\* The calls recorded in doc_call: the last encrypt_document_fields call
\* (enc) and the decrypt_document_fields call made after it (dec).
NoDocCall ==
    [enc |-> [done |-> FALSE, before |-> PlainDoc(EmptyDict), names |-> << >>,
              result |-> PlainDoc(EmptyDict)],
     dec |-> [done |-> FALSE, arg |-> PlainDoc(EmptyDict), names |-> << >>,
              ok |-> FALSE, result |-> PlainDoc(EmptyDict)]]

\* The loop of encrypt_document_fields without the "is not None" test
RECURSIVE EncryptLoopNullToo(_, _, _, _, _)
EncryptLoopNullToo(document, fields_to_encrypt, associated_data, i, st) ==
    IF i > Len(fields_to_encrypt) THEN st
    ELSE LET field_name == fields_to_encrypt[i]
         IN IF field_name \in DOMAIN document.fields
            THEN LET field_aad == associated_data @@
                                  [k \in {"field_name"} |-> field_name]
                     r == encrypt_field(st.ks, document.fields[field_name],
                                        NoneVal, field_aad)
                 IN EncryptLoopNullToo(document, fields_to_encrypt,
                                       associated_data, i + 1,
                                       [fields |-> Without(st.fields, field_name),
                                        enc |-> With(st.enc, field_name, r.value),
                                        listed |-> IF field_name \in Range(st.listed)
                                                   THEN st.listed
                                                   ELSE Append(st.listed, field_name),
                                        ks |-> r.ks])
            ELSE EncryptLoopNullToo(document, fields_to_encrypt,
                                    associated_data, i + 1, st)

\* The loop of encrypt_document_fields from position i on: st holds the copy
\* being built, the metadata collected so far and the key store.
RECURSIVE EncryptLoop(_, _, _, _, _)
EncryptLoop(document, fields_to_encrypt, associated_data, i, st) ==
    IF i > Len(fields_to_encrypt) THEN st
    ELSE LET field_name == fields_to_encrypt[i]
         IN IF field_name \in DOMAIN document.fields
               /\ document.fields[field_name] # PyNone
            THEN LET field_aad == associated_data @@
                                  [k \in {"field_name"} |-> field_name]
                     r == encrypt_field(st.ks, document.fields[field_name],
                                        NoneVal, field_aad)
                 IN EncryptLoop(document, fields_to_encrypt, associated_data,
                                i + 1,
                                [fields |-> Without(st.fields, field_name),
                                 enc |-> With(st.enc, field_name, r.value),
                                 listed |-> IF field_name \in Range(st.listed)
                                            THEN st.listed
                                            ELSE Append(st.listed, field_name),
                                 ks |-> r.ks])
            ELSE EncryptLoop(document, fields_to_encrypt, associated_data,
                             i + 1, st)

\* encrypt_document_fields(document, fields_to_encrypt, associated_data)
encrypt_document_fields(ks, document, fields_to_encrypt, associated_data) ==
    LET st == EncryptLoop(document, fields_to_encrypt, associated_data, 1,
                          [fields |-> document.fields, enc |-> document.enc,
                           listed |-> << >>, ks |-> ks])
    IN [doc |-> [fields |-> st.fields,
                 enc |-> st.enc,
                 meta |-> [present |-> TRUE,
                           encrypted_fields |-> st.listed,
                           key_version |-> get_current_version(st.ks)]],
        ks |-> st.ks]

\* The loop of decrypt_document_fields from position i on; a decrypt_field
\* that raises ends the call.
RECURSIVE DecryptLoop(_, _, _, _)
DecryptLoop(encrypted_document, fields_to_decrypt, i, st) ==
    IF i > Len(fields_to_decrypt) \/ ~st.ok THEN st
    ELSE LET field_name == fields_to_decrypt[i]
         IN IF field_name \in Range(encrypted_document.meta.encrypted_fields)
               /\ field_name \in DOMAIN encrypted_document.enc
            THEN LET r == decrypt_field(st.ks,
                                        encrypted_document.enc[field_name],
                                        NoneVal)
                 IN DecryptLoop(encrypted_document, fields_to_decrypt, i + 1,
                                [ok |-> r.ok,
                                 fields |-> IF r.ok
                                            THEN With(st.fields, field_name,
                                                      r.value)
                                            ELSE st.fields,
                                 enc |-> IF r.ok
                                         THEN Without(st.enc, field_name)
                                         ELSE st.enc,
                                 ks |-> r.ks])
            ELSE DecryptLoop(encrypted_document, fields_to_decrypt, i + 1, st)

\* fields_to_decrypt=None
NoList == <<NoneVal>>

\* decrypt_document_fields(encrypted_document, fields_to_decrypt); None for
\* fields_to_decrypt selects the listed fields.  The metadata block is
\* carried over as it is.
decrypt_document_fields(ks, encrypted_document, fields_to_decrypt) ==
    IF ~encrypted_document.meta.present
    THEN [ok |-> TRUE, doc |-> encrypted_document, ks |-> ks]
    ELSE LET selected == IF fields_to_decrypt = NoList
                         THEN encrypted_document.meta.encrypted_fields
                         ELSE fields_to_decrypt
             st == DecryptLoop(encrypted_document, selected, 1,
                               [ok |-> TRUE,
                                fields |-> encrypted_document.fields,
                                enc |-> encrypted_document.enc,
                                ks |-> ks])
         IN [ok |-> st.ok,
             doc |-> [fields |-> st.fields, enc |-> st.enc,
                      meta |-> encrypted_document.meta],
             ks |-> st.ks]

\* Field lists without repetition, up to two names
FieldLists ==
    {<< >>} \cup {<<a>> : a \in FieldNames}
            \cup {<<ab[1], ab[2]>> :
                     ab \in {x \in FieldNames \X FieldNames : x[1] # x[2]}}

\* A caller encrypts fields of the document and keeps the result.
EncryptDocumentFields(fields_to_encrypt, associated_data) ==
    /\ entropy + 1 + Len(fields_to_encrypt) <= MaxEntropy
    /\ LET r == encrypt_document_fields(KS, doc, fields_to_encrypt,
                                        associated_data)
       IN /\ doc' = r.doc
          /\ doc_call' = [enc |-> [done |-> TRUE, before |-> doc,
                                   names |-> fields_to_encrypt,
                                   result |-> r.doc],
                          dec |-> NoDocCall.dec]
          /\ SetKS(r.ks)
    /\ UNCHANGED <<ks_mode, ks_out, ks_hist, clock, auditVars, cipherVars,
                   vaultVars, rbacVars, extVars>>

\* A caller decrypts fields of the document and keeps the result; when the
\* call raises it keeps the document it had.
DecryptDocumentFields(fields_to_decrypt) ==
    /\ entropy < MaxEntropy
    /\ LET r == decrypt_document_fields(KS, doc, fields_to_decrypt)
       IN /\ doc' = IF r.ok THEN r.doc ELSE doc
          /\ doc_call' = [doc_call EXCEPT
                             !.dec = [done |-> TRUE, arg |-> doc,
                                      names |-> fields_to_decrypt,
                                      ok |-> r.ok, result |-> r.doc]]
          /\ SetKS(r.ks)
    /\ UNCHANGED <<ks_mode, ks_out, ks_hist, clock, auditVars, cipherVars,
                   vaultVars, rbacVars, extVars>>

\* ------------------------------------------------------------------------
\* PII vault
\* ------------------------------------------------------------------------

\* PII_STORAGE_MODE = os.getenv("PII_STORAGE_MODE", "never_store_original")
StorageModes == {"never_store_original", "store_encrypted_with_key"}

\* VAULT_KEY_VERSION = os.getenv("VAULT_KEY_VERSION", "v1")
VAULT_KEY_VERSION == "v1"

\* VAULT_TTL_DAYS = int(os.getenv("VAULT_TTL_DAYS", "7"))
VAULT_TTL_DAYS == 7

\* The key PIIVault._load_or_generate_key loads from pii_vault.key
VaultKey == 1

\* An Optional[Dict]: None, or the dict d
NoDict == [isnone |-> TRUE, d |-> EmptyDict]
Dict(d) == [isnone |-> FALSE, d |-> d]

\* associated_data or {}
OrEmptyDict(ad) == IF ad.isnone THEN Dict(EmptyDict) ELSE ad

VaultKeyOrder == <<"purpose", "session_id", "user_id">>

RECURSIVE VaultDumpsFrom(_, _)
VaultDumpsFrom(d, i) ==
    IF i > Len(VaultKeyOrder) THEN << >>
    ELSE IF VaultKeyOrder[i] \in DOMAIN d
         THEN <<<<VaultKeyOrder[i], d[VaultKeyOrder[i]]>>>>
              \o VaultDumpsFrom(d, i + 1)
         ELSE VaultDumpsFrom(d, i + 1)

\* json.dumps(x, sort_keys=True).encode('utf-8') for an Optional[Dict]:
\* "null" for None, the object with its keys in order for a dict
VaultDumps(ad) ==
    IF ad.isnone THEN [kind |-> "null", items |-> << >>]
    ELSE [kind |-> "object", items |-> VaultDumpsFrom(ad.d, 1)]

\* What a vault call returns: a text, an id, None, or an exception.  cause
\* records which branch produced it, at and key_version the time of the
\* call and the key_version of the vault that served it.
VaultOut(op, id, kind, text, cause) ==
    [op |-> op, id |-> id, kind |-> kind, text |-> text, cause |-> cause,
     at |-> now, key_version |-> vault.key_version]

\* The mode when the environment sets none
PII_STORAGE_MODE == "never_store_original"

InitVault ==
    /\ vault = [key |-> VaultKey, key_version |-> VAULT_KEY_VERSION]
    /\ vault_db = << >>
    /\ now = 0
    /\ vault_out = VaultOut("none", 0, "none", "", "none")

\* PIIVault.encrypt_pii(original_text, associated_data): the vault entry
\* with a fresh _id and nonce, or None when storage is disabled
encrypt_pii(v, original_text, associated_data, fresh) ==
    IF pii_mode = "never_store_original"
    THEN [isnone |-> TRUE, entry |-> << >>]
    ELSE LET nonce == fresh
             aad == VaultDumps(OrEmptyDict(associated_data))
             ciphertext == AesGcmEncrypt(v.key, nonce,
                                         Bytes(original_text, TRUE), aad)
         IN [isnone |-> FALSE,
             entry |-> [id |-> fresh,
                        vault_ciphertext |-> B64Encode(ciphertext),
                        nonce |-> B64Encode(nonce),
                        key_version |-> v.key_version,
                        associated_data |-> associated_data,
                        created_at |-> now,
                        expires_at |-> now + VAULT_TTL_DAYS]]

\* PIIVault.decrypt_pii(vault_entry): the text, or the exception raised
\* (key version mismatch, InvalidTag)
decrypt_pii(v, vault_entry) ==
    IF vault_entry.key_version # v.key_version
    THEN [ok |-> FALSE, text |-> "", cause |-> "key_version"]
    ELSE LET ciphertext == B64Decode(vault_entry.vault_ciphertext)
             nonce == B64Decode(vault_entry.nonce)
             aad == VaultDumps(vault_entry.associated_data)
             opened == AesGcmDecrypt(v.key, nonce, ciphertext, aad)
         IN IF opened.ok
            THEN [ok |-> TRUE, text |-> opened.data.text, cause |-> "ok"]
            ELSE [ok |-> FALSE, text |-> "", cause |-> "invalid_tag"]

\* database.pii_vault.find_one({"_id": ObjectId(vault_id)})
FindOne(vault_id) ==
    SelectSeq(vault_db, LAMBDA e : e.entry.id = vault_id)

\* retrieve_encrypted_pii without the test of expires_at
retrieve_ignoring_expiry(v, vault_id) ==
    LET found == FindOne(vault_id)
    IN IF found = << >>
       THEN [kind |-> "none", text |-> "", cause |-> "missing"]
       ELSE LET r == decrypt_pii(v, found[1].entry)
            IN IF r.ok
               THEN [kind |-> "text", text |-> r.text, cause |-> "ok"]
               ELSE [kind |-> "none", text |-> "", cause |-> r.cause]

\* retrieve_encrypted_pii(database, vault_id): the text, or None for an
\* entry that is missing or expired and for every exception
retrieve_encrypted_pii(v, vault_id) ==
    LET found == FindOne(vault_id)
    IN IF found = << >>
       THEN [kind |-> "none", text |-> "", cause |-> "missing"]
       ELSE IF found[1].entry.expires_at < now
       THEN [kind |-> "none", text |-> "", cause |-> "expired"]
       ELSE LET r == decrypt_pii(v, found[1].entry)
            IN IF r.ok
               THEN [kind |-> "text", text |-> r.text, cause |-> "ok"]
               ELSE [kind |-> "none", text |-> "", cause |-> r.cause]

\* store_encrypted_pii(database, original_text, session_id, user_id)
StoreEncryptedPii(original_text, session_id, user_id) ==
    /\ Len(vault_db) < MaxVaultEntries
    /\ LET ad == Dict([k \in {"session_id", "user_id", "purpose"} |->
                         CASE k = "session_id" -> session_id
                           [] k = "user_id" -> user_id
                           [] OTHER -> "troubleshooting"])
           r == encrypt_pii(vault, original_text, ad, Len(vault_db) + 1)
       IN IF r.isnone
          THEN /\ vault_out' = VaultOut("store", 0, "none", "", "disabled")
               /\ UNCHANGED vault_db
          ELSE /\ vault_db' = Append(vault_db,
                                     [entry |-> r.entry,
                                      original_text |-> original_text,
                                      tampered |-> FALSE])
               /\ vault_out' = VaultOut("store", r.entry.id, "id", "", "ok")
    /\ UNCHANGED <<pii_mode, vault, now, clock, auditVars, keyVars,
                   cipherVars, docVars, rbacVars, extVars>>

\* retrieve_encrypted_pii(database, vault_id)
RetrieveEncryptedPii(vault_id) ==
    /\ LET r == retrieve_encrypted_pii(vault, vault_id)
       IN vault_out' = VaultOut("retrieve", vault_id, r.kind, r.text, r.cause)
    /\ UNCHANGED <<pii_mode, vault, vault_db, now, clock, auditVars, keyVars,
                   cipherVars, docVars, rbacVars, extVars>>

\* A caller holding a stored entry calls get_pii_vault().decrypt_pii on it.
DecryptPii(i) ==
    /\ i \in 1..Len(vault_db)
    /\ LET r == decrypt_pii(vault, vault_db[i].entry)
       IN vault_out' = VaultOut("decrypt_pii", vault_db[i].entry.id,
                                IF r.ok THEN "text" ELSE "raise",
                                r.text, r.cause)
    /\ UNCHANGED <<pii_mode, vault, vault_db, now, clock, auditVars, keyVars,
                   cipherVars, docVars, rbacVars, extVars>>

\* A day passes.
Tick ==
    /\ now < MaxTime
    /\ now' = now + 1
    /\ UNCHANGED <<pii_mode, vault, vault_db, vault_out, clock, auditVars,
                   keyVars, cipherVars, docVars, rbacVars, extVars>>

\* Someone with write access to the collection changes a stored ciphertext.
TamperVaultCiphertext(i) ==
    /\ i \in 1..Len(vault_db)
    /\ ~vault_db[i].tampered
    /\ vault_db' = [vault_db EXCEPT
                       ![i].entry.vault_ciphertext.raw.flipped = TRUE,
                       ![i].tampered = TRUE]
    /\ UNCHANGED <<pii_mode, vault, now, vault_out, clock, auditVars,
                   keyVars, cipherVars, docVars, rbacVars, extVars>>

\* The process is restarted with another VAULT_KEY_VERSION over the same
\* key file.
VaultRestart(key_version) ==
    /\ vault.key_version # key_version
    /\ vault' = [vault EXCEPT !.key_version = key_version]
    /\ UNCHANGED <<pii_mode, vault_db, now, vault_out, clock, auditVars,
                   keyVars, cipherVars, docVars, rbacVars, extVars>>

\* ------------------------------------------------------------------------
\* Roles and response filtering
\* ------------------------------------------------------------------------
READER == "reader"
ANALYST == "analyst"
ADMIN == "admin"
SYSTEM == "system"

ALL_ROLES == {READER, ANALYST, ADMIN, SYSTEM}

\* Role.HIERARCHY with admin no longer above analyst
HierarchyAdminGap ==
    [r \in ALL_ROLES |->
        CASE r = SYSTEM -> {SYSTEM, ADMIN, ANALYST, READER}
          [] r = ADMIN -> {ADMIN, READER}
          [] r = ANALYST -> {ANALYST, READER}
          [] OTHER -> {READER}]

\* Role.HIERARCHY
HIERARCHY ==
    [r \in ALL_ROLES |->
        CASE r = SYSTEM -> {SYSTEM, ADMIN, ANALYST, READER}
          [] r = ADMIN -> {ADMIN, ANALYST, READER}
          [] r = ANALYST -> {ANALYST, READER}
          [] OTHER -> {READER}]

\* Role.get_effective_roles: cls.HIERARCHY.get(role, {role})
get_effective_roles(role) ==
    IF role \in DOMAIN HIERARCHY THEN HIERARCHY[role] ELSE {role}

\* Role.has_permission
has_permission(user_role, required_role) ==
    required_role \in get_effective_roles(user_role)

\* get_allowed_fields_for_role: field_permissions.get(role, set())
get_allowed_fields_for_role(role) ==
    CASE role = READER ->
            {"id", "user_id", "consent_id", "timestamp", "created_at",
             "anonymized_answer", "score", "feedback", "status"}
      [] role = ANALYST ->
            {"id", "user_id", "consent_id", "timestamp", "created_at",
             "anonymized_answer", "redacted_text", "tokens", "analysis",
             "score", "feedback", "facial_analysis", "status"}
      [] role = ADMIN -> {"*"}
      [] role = SYSTEM -> {"*"}
      [] OTHER -> {}

\* The loop of filter_response_by_role that finds the highest role
RECURSIVE HighestLoop(_, _, _)
HighestLoop(user_roles, i, highest_role) ==
    IF i > Len(user_roles) THEN highest_role
    ELSE LET role == user_roles[i]
         IN IF role = SYSTEM THEN SYSTEM
            ELSE IF role = ADMIN THEN HighestLoop(user_roles, i + 1, ADMIN)
            ELSE IF role = ANALYST /\ highest_role = READER
                 THEN HighestLoop(user_roles, i + 1, ANALYST)
            ELSE HighestLoop(user_roles, i + 1, highest_role)

\* key.startswith(prefix)
StartsWith(key, prefix) ==
    Len(key) >= Len(prefix) /\ SubSeq(key, 1, Len(prefix)) = prefix

REDACTED == "[REDACTED - Insufficient permissions]"

\* The tail of filter_response_by_role: the data itself for the wildcard,
\* else a copy in which a key keeps its value when it is allowed or starts
\* with "_" and holds the marker otherwise
ApplyAllowed(data, allowed_fields) ==
    IF "*" \in allowed_fields THEN data
    ELSE [key \in DOMAIN data |->
             IF key \in allowed_fields \/ StartsWith(key, "_")
             THEN data[key]
             ELSE REDACTED]

\* filter_response_by_role with the first role of the list taken as the
\* highest
filter_by_first_role(data, user_roles) ==
    LET highest_role == IF user_roles = << >> THEN READER ELSE user_roles[1]
    IN ApplyAllowed(data, get_allowed_fields_for_role(highest_role))

\* filter_response_by_role(data, user_roles)
filter_response_by_role(data, user_roles) ==
    LET highest_role == HighestLoop(user_roles, 1, READER)
    IN ApplyAllowed(data, get_allowed_fields_for_role(highest_role))

NoFilterCall == [done |-> FALSE, data |-> EmptyDict, user_roles |-> << >>,
                 result |-> EmptyDict]

NoPermCall == [done |-> FALSE, user_role |-> READER, required_role |-> READER,
               result |-> FALSE]

InitRbac ==
    /\ rbac_out = [last |-> NoFilterCall, prev |-> NoFilterCall]
    /\ rbac_perm = NoPermCall

\* A handler filters a response for its caller; rbac_out keeps this call
\* and the filter call made just before it.
FilterResponseByRole(data, user_roles) ==
    /\ rbac_out' = [last |-> [done |-> TRUE, data |-> data,
                              user_roles |-> user_roles,
                              result |-> filter_response_by_role(data,
                                                                 user_roles)],
                    prev |-> rbac_out.last]
    /\ rbac_perm' = NoPermCall
    /\ UNCHANGED <<clock, auditVars, keyVars, cipherVars, docVars,
                   vaultVars, extVars>>

\* Role.has_permission(user_role, required_role)
HasPermission(user_role, required_role) ==
    /\ rbac_perm' = [done |-> TRUE, user_role |-> user_role,
                     required_role |-> required_role,
                     result |-> has_permission(user_role, required_role)]
    /\ rbac_out' = [last |-> NoFilterCall, prev |-> NoFilterCall]
    /\ UNCHANGED <<clock, auditVars, keyVars, cipherVars, docVars,
                   vaultVars, extVars>>

\* Responses: a score with a transcript (two texts), an analysis or an
\* encrypted transcript next to it
ResponseKeys ==
    {{"score", "transcript"}, {"score", "analysis"},
     {"score", "_encrypted_transcript"}}

Responses ==
    {[key \in keys |-> IF key = "score" THEN "91" ELSE text] :
        keys \in ResponseKeys, text \in {"a"}}
    \cup {[key \in {"score", "transcript"} |->
             IF key = "score" THEN "91" ELSE "b"]}

\* Role lists of up to two roles, in every order, with repetition, and
\* three lists of three
RoleLists ==
    {<< >>} \cup {<<a>> : a \in ALL_ROLES}
            \cup {<<ab[1], ab[2]>> : ab \in ALL_ROLES \X ALL_ROLES}
            \cup {<<ANALYST, ADMIN, READER>>, <<READER, ADMIN, ANALYST>>,
                  <<ADMIN, SYSTEM, READER>>}

\* ------------------------------------------------------------------------
\* PII redactor (privacy/pii_redactor.py), regex pass; the spaCy model is
\* not loaded (use_spacy is False)
\* ------------------------------------------------------------------------
\* The keys of entity_counters that the regex pass uses
CounterKeys == {"email", "phone", "ssn", "credit_card", "id", "ip"}

\* The metadata key the regex pass counts a category under
MetadataKey(category) ==
    CASE category = "email" -> "emails"
      [] category = "phone" -> "phones"
      [] category = "ssn" -> "ssn"
      [] category = "credit_card" -> "credit_cards"
      [] category = "id" -> "ids"
      [] category = "ip" -> "ip_addresses"

MetadataKeys == {MetadataKey(c) : c \in CounterKeys}

\* f"[EMAIL_{n}]" and its siblings
Placeholder(category, n) ==
    LET prefix == CASE category = "email" -> "EMAIL"
                    [] category = "phone" -> "PHONE"
                    [] category = "ssn" -> "SSN"
                    [] category = "credit_card" -> "CC"
                    [] category = "id" -> "ID"
                    [] category = "ip" -> "IP"
    IN "[" \o prefix \o "_" \o ToString(n) \o "]"

Span(start, end, category) ==
    [start |-> start, end |-> end, category |-> category]

\* What the patterns of the regex pass match in a text, in the order in
\* which _redact_with_regex collects them: emails, the three phone patterns
\* in turn, SSN, credit cards of 16 digits, the two id patterns, IP
\* addresses with octets up to 255.  Positions are Python's match.start()
\* and match.end().  A text not listed matches nothing.
Matches(text) ==
    CASE text = "mail a@b.com or c@d.org" ->
            <<Span(5, 12, "email"), Span(16, 23, "email")>>
      [] text = "call 555-123-4567" -> <<Span(5, 17, "phone")>>
      [] text = "ssn 123-45-6789" -> <<Span(4, 15, "ssn")>>
      [] text = "card 1234 5678 1234 5678" -> <<Span(5, 24, "credit_card")>>
      [] text = "ip 10.0.0.1" -> <<Span(3, 11, "ip")>>
      [] text = "AB1234567" -> <<Span(0, 9, "id")>>
      [] text = "+1 555-123-4567 ok" ->
            <<Span(3, 15, "phone"), Span(0, 15, "phone")>>
      [] text = "ID-1234567890 ok" ->
            <<Span(3, 13, "phone"), Span(0, 13, "id")>>
      [] text = "5551234567@example.com" ->
            <<Span(0, 22, "email"), Span(0, 10, "phone")>>
      [] OTHER -> << >>

\* text[:n] and text[n:] of Python, which clamp n to the length of the text
SliceTo(text, n) ==
    SubSeq(text, 1, IF n < Len(text) THEN n ELSE Len(text))

SliceFrom(text, n) ==
    SubSeq(text, (IF n < Len(text) THEN n ELSE Len(text)) + 1, Len(text))

\* replacements.sort(key=lambda x: x[0], reverse=True): a stable sort, so
\* replacements with the same start keep the order of collection
RECURSIVE InsertByStart(_, _)
InsertByStart(sorted, r) ==
    IF sorted = << >> THEN <<r>>
    ELSE IF Head(sorted)[1] >= r[1]
         THEN <<Head(sorted)>> \o InsertByStart(Tail(sorted), r)
         ELSE <<r>> \o sorted

RECURSIVE SortByStartDesc(_)
SortByStartDesc(replacements) ==
    IF replacements = << >> THEN << >>
    ELSE InsertByStart(SortByStartDesc(SubSeq(replacements, 1,
                                              Len(replacements) - 1)),
                       replacements[Len(replacements)])

\* The pii_metadata dict redact_pii starts from
NoCounts == [k \in MetadataKeys |-> 0]

RECURSIVE Sum(_, _)
Sum(f, keys) ==
    IF keys = {} THEN 0
    ELSE LET k == CHOOSE x \in keys : TRUE
         IN f[k] + Sum(f, keys \ {k})

\* The loop that applies the sorted replacements, each a tuple
\* (start, end, placeholder, category) cut out of the text as it is now
RECURSIVE ApplyLoop(_, _, _)
ApplyLoop(text, counts, replacements) ==
    IF replacements = << >> THEN [text |-> text, counts |-> counts]
    ELSE LET r == Head(replacements)
         IN ApplyLoop(SliceTo(text, r[1]) \o r[3] \o SliceFrom(text, r[2]),
                      [counts EXCEPT ![r[4]] = @ + 1],
                      Tail(replacements))

\* What redact_pii returns once the replacements are collected
RedactResult(text, replacements, placeholders) ==
    LET applied == ApplyLoop(text, NoCounts, SortByStartDesc(replacements))
    IN [text |-> applied.text,
        counts |-> applied.counts,
        placeholders |-> placeholders,
        total_redactions |-> Sum(applied.counts, MetadataKeys)]

\* validate_redaction(original, redacted): it searches the redacted text for
\* the email, phone and SSN patterns
validate_redaction(original, redacted) ==
    \A i \in 1..Len(Matches(redacted)) :
        Matches(redacted)[i].category \notin {"email", "phone", "ssn"}

\* A redact_pii call of one thread: where it stands (pc), its text, the
\* matches it still has to number (todo), the counter value it loaded (tmp),
\* its replacements and metadata["placeholders"], and what it returned
IdleCall ==
    [pc |-> "idle", text |-> "", todo |-> << >>, tmp |-> 0,
     replacements |-> << >>, placeholders |-> {},
     result |-> RedactResult("", << >>, {})]

Threads == {1, 2}

MaxCounter == 3

NoValidation ==
    [called |-> FALSE, original |-> "", redacted |-> "", result |-> TRUE]

InitRedact ==
    /\ entity_counters = [k \in CounterKeys |-> 0]
    /\ redact_calls = [t \in Threads |-> IdleCall]
    /\ redact_out = NoValidation

\* Where a call goes once a match is numbered, or when there is none
AfterMatch(todo) == IF todo = << >> THEN "apply" ELSE "load"

\* redact_pii(text) is entered; an empty text returns at once, any other
\* text reaches self.entity_counters.clear()
StartRedact(t, text) ==
    /\ redact_calls[t].pc \in {"idle", "done"}
    /\ redact_calls' = [redact_calls EXCEPT ![t] =
          IF text = ""
          THEN [IdleCall EXCEPT !.pc = "done"]
          ELSE [IdleCall EXCEPT !.pc = "clear", !.text = text]]
    /\ UNCHANGED <<entity_counters, redact_out>>
    /\ UNCHANGED <<clock, auditVars, keyVars, cipherVars, docVars, vaultVars, rbacVars>>
    /\ UNCHANGED <<log_calls, key_calls, pii_held>>

\* self.entity_counters.clear(), then the patterns are run over the text
ClearCounters(t) ==
    /\ redact_calls[t].pc = "clear"
    /\ entity_counters' = [k \in CounterKeys |-> 0]
    /\ redact_calls' = [redact_calls EXCEPT
          ![t].todo = Matches(redact_calls[t].text),
          ![t].pc = AfterMatch(Matches(redact_calls[t].text))]
    /\ UNCHANGED redact_out
    /\ UNCHANGED <<clock, auditVars, keyVars, cipherVars, docVars, vaultVars, rbacVars>>
    /\ UNCHANGED <<log_calls, key_calls, pii_held>>

\* self.entity_counters[c] += 1 reads the counter ...  (Racing calls can
\* drive a counter up without end; the model follows it up to MaxCounter.)
LoadCounter(t) ==
    /\ redact_calls[t].pc = "load"
    /\ entity_counters[Head(redact_calls[t].todo).category] < MaxCounter
    /\ redact_calls' = [redact_calls EXCEPT
          ![t].tmp = entity_counters[Head(redact_calls[t].todo).category],
          ![t].pc = "store"]
    /\ UNCHANGED <<entity_counters, redact_out>>
    /\ UNCHANGED <<clock, auditVars, keyVars, cipherVars, docVars, vaultVars, rbacVars>>
    /\ UNCHANGED <<log_calls, key_calls, pii_held>>

\* ... and writes it back one higher
StoreCounter(t) ==
    /\ redact_calls[t].pc = "store"
    /\ entity_counters' = [entity_counters EXCEPT
          ![Head(redact_calls[t].todo).category] = redact_calls[t].tmp + 1]
    /\ redact_calls' = [redact_calls EXCEPT ![t].pc = "read"]
    /\ UNCHANGED redact_out
    /\ UNCHANGED <<clock, auditVars, keyVars, cipherVars, docVars, vaultVars, rbacVars>>
    /\ UNCHANGED <<log_calls, key_calls, pii_held>>

\* placeholder = f"[C_{self.entity_counters[c]}]" reads the counter again;
\* the replacement and the placeholder are recorded
ReadCounter(t) ==
    /\ redact_calls[t].pc = "read"
    /\ LET call == redact_calls[t]
           m == Head(call.todo)
           placeholder == Placeholder(m.category, entity_counters[m.category])
       IN redact_calls' = [redact_calls EXCEPT
             ![t].replacements = Append(call.replacements,
                 <<m.start, m.end, placeholder, MetadataKey(m.category)>>),
             ![t].placeholders = call.placeholders \cup {placeholder},
             ![t].todo = Tail(call.todo),
             ![t].pc = AfterMatch(Tail(call.todo))]
    /\ UNCHANGED <<entity_counters, redact_out>>
    /\ UNCHANGED <<clock, auditVars, keyVars, cipherVars, docVars, vaultVars, rbacVars>>
    /\ UNCHANGED <<log_calls, key_calls, pii_held>>

\* The replacements are sorted and applied, and redact_pii returns
ApplyReplacements(t) ==
    /\ redact_calls[t].pc = "apply"
    /\ redact_calls' = [redact_calls EXCEPT
          ![t].result = RedactResult(redact_calls[t].text,
                                     redact_calls[t].replacements,
                                     redact_calls[t].placeholders),
          ![t].pc = "done"]
    /\ UNCHANGED <<entity_counters, redact_out>>
    /\ UNCHANGED <<clock, auditVars, keyVars, cipherVars, docVars, vaultVars, rbacVars>>
    /\ UNCHANGED <<log_calls, key_calls, pii_held>>

\* One step of the redact_pii call of thread t
RedactStep(t) ==
    \/ ClearCounters(t)
    \/ LoadCounter(t)
    \/ StoreCounter(t)
    \/ ReadCounter(t)
    \/ ApplyReplacements(t)

\* redactor.validate_redaction(original, redacted)
ValidateRedaction(original, redacted) ==
    /\ redact_out' = [called |-> TRUE, original |-> original,
                      redacted |-> redacted,
                      result |-> validate_redaction(original, redacted)]
    /\ UNCHANGED <<entity_counters, redact_calls>>
    /\ UNCHANGED <<clock, auditVars, keyVars, cipherVars, docVars, vaultVars, rbacVars>>
    /\ UNCHANGED <<log_calls, key_calls, pii_held>>

\* ------------------------------------------------------------------------
\* Concurrent callers of AuditLogger.log (security/audit_logger.py): request
\* threads share one logger and take the statements of log() in any order
\* ------------------------------------------------------------------------
BlankEntry ==
    [id |-> 0, actor_id |-> "", action |-> "", target_id |-> "",
     justification |-> NoneVal, success |-> TRUE, timestamp |-> 0,
     entry_hash |-> "", prev_hash |-> NoneVal]

InitLogCalls ==
    log_calls = [t \in Threads |-> [pc |-> "idle", log_entry |-> BlankEntry]]

\* log() calls that have not inserted their entry yet
Pending == {t \in Threads : log_calls[t].pc \in {"hash", "prev", "insert"}}

\* timestamp = datetime.utcnow() and the log_entry dict
BuildLogEntry(t, action, actor_id, target_id) ==
    /\ log_calls[t].pc = "idle"
    /\ Len(store) + Cardinality(Pending) < MaxEntries
    /\ clock' = clock + 1
    /\ log_calls' = [log_calls EXCEPT ![t] =
          [pc |-> "hash",
           log_entry |-> [BlankEntry EXCEPT
                            !.actor_id = OrAnonymous(actor_id),
                            !.action = action,
                            !.target_id = target_id,
                            !.timestamp = clock + 1]]]
    /\ UNCHANGED <<auditVars, redactVars, key_calls, pii_held>>
    /\ UNCHANGED <<keyVars, cipherVars, docVars, vaultVars, rbacVars>>

\* entry_hash = self._compute_hash(log_entry), which reads self._last_hash
ComputeEntryHash(t) ==
    /\ log_calls[t].pc = "hash"
    /\ log_calls' = [log_calls EXCEPT
          ![t].log_entry.entry_hash = compute_hash(log_calls[t].log_entry),
          ![t].pc = "prev"]
    /\ UNCHANGED <<clock, auditVars, redactVars, key_calls, pii_held>>
    /\ UNCHANGED <<keyVars, cipherVars, docVars, vaultVars, rbacVars>>

\* log_entry["prev_hash"] = self._last_hash
ReadPrevHash(t) ==
    /\ log_calls[t].pc = "prev"
    /\ log_calls' = [log_calls EXCEPT
          ![t].log_entry.prev_hash = last_hash,
          ![t].pc = "insert"]
    /\ UNCHANGED <<clock, auditVars, redactVars, key_calls, pii_held>>
    /\ UNCHANGED <<keyVars, cipherVars, docVars, vaultVars, rbacVars>>

\* result = self.collection.insert_one(log_entry)
InsertOne(t) ==
    /\ log_calls[t].pc = "insert"
    /\ store' = Append(store, [log_calls[t].log_entry EXCEPT
                                  !.id = Len(store) + 1])
    /\ log_calls' = [log_calls EXCEPT ![t].pc = "update"]
    /\ UNCHANGED <<last_hash, verified, audit_hist, audit_out>>
    /\ UNCHANGED <<clock, redactVars, key_calls, pii_held>>
    /\ UNCHANGED <<keyVars, cipherVars, docVars, vaultVars, rbacVars>>

\* self._last_hash = entry_hash, and log() returns
UpdateLastHash(t) ==
    /\ log_calls[t].pc = "update"
    /\ last_hash' = log_calls[t].log_entry.entry_hash
    /\ log_calls' = [log_calls EXCEPT ![t].pc = "idle"]
    /\ UNCHANGED <<store, verified, audit_hist, audit_out>>
    /\ UNCHANGED <<clock, redactVars, key_calls, pii_held>>
    /\ UNCHANGED <<keyVars, cipherVars, docVars, vaultVars, rbacVars>>

\* ------------------------------------------------------------------------
\* Concurrent callers of the LocalKeyStore (security/key_store.py): every
\* read and write of a key file or of key_metadata.json is a step
\* ------------------------------------------------------------------------
\* A key store call of one thread: the operation, where it stands, the
\* version asked for, the metadata dict it loaded, what it returned, and the
\* newest version rotate_key had returned when the call began
IdleKeyCall ==
    [op |-> "none", pc |-> "idle", key_version |-> KEY_VERSION,
     metadata |-> [current_version |-> KEY_VERSION,
                   keys |-> [v \in AllVersions |-> "absent"]],
     key |-> NoKey, version |-> NoneVal, floor |-> NoneVal]

InitKeyCalls ==
    key_calls = [t \in Threads |-> IdleKeyCall]

KeyCallFree(t) == key_calls[t].pc \in {"idle", "done"}

\* get_data_key(key_version): if not os.path.exists(key_path)
CheckKeyExists(t, key_version) ==
    /\ KeyCallFree(t)
    /\ key_calls' = [key_calls EXCEPT ![t] =
          [IdleKeyCall EXCEPT
              !.op = "get_data_key",
              !.key_version = key_version,
              !.pc = IF key_files[key_version] = NoKey
                     THEN "write" ELSE "read"]]
    /\ UNCHANGED <<keyVars, clock, auditVars, redactVars, log_calls, pii_held>>
    /\ UNCHANGED <<cipherVars, docVars, vaultVars, rbacVars>>

\* data_key = AESGCM.generate_key(...); open(key_path, 'wb').write(data_key)
WriteKeyFile(t) ==
    /\ key_calls[t].pc = "write"
    /\ entropy < MaxEntropy
    /\ entropy' = entropy + 1
    /\ key_files' = [key_files EXCEPT
                        ![key_calls[t].key_version] = entropy + 1]
    /\ key_calls' = [key_calls EXCEPT ![t].pc = "load"]
    /\ UNCHANGED <<ks_mode, metadata, ks_out, ks_hist>>
    /\ UNCHANGED <<clock, auditVars, redactVars, log_calls, pii_held>>
    /\ UNCHANGED <<cipherVars, docVars, vaultVars, rbacVars>>

\* metadata = self._load_metadata(), in get_data_key and in rotate_key
LoadMetadata(t) ==
    /\ key_calls[t].pc = "load"
    /\ key_calls[t].op = "rotate_key" =>
          VersionNum(metadata.current_version) < MaxVersion
    /\ key_calls' = [key_calls EXCEPT ![t].metadata = metadata,
                                      ![t].pc = "save"]
    /\ UNCHANGED <<keyVars, clock, auditVars, redactVars, log_calls, pii_held>>
    /\ UNCHANGED <<cipherVars, docVars, vaultVars, rbacVars>>

\* get_data_key: metadata['keys'][key_version] = {..., "status": "active"};
\* self._save_metadata(metadata)
SaveKeyMetadata(t) ==
    /\ key_calls[t].pc = "save"
    /\ key_calls[t].op = "get_data_key"
    /\ metadata' = [key_calls[t].metadata EXCEPT
                       !.keys[key_calls[t].key_version] = "active"]
    /\ key_calls' = [key_calls EXCEPT ![t].pc = "read"]
    /\ UNCHANGED <<ks_mode, key_files, entropy, ks_out, ks_hist>>
    /\ UNCHANGED <<clock, auditVars, redactVars, log_calls, pii_held>>
    /\ UNCHANGED <<cipherVars, docVars, vaultVars, rbacVars>>

\* get_data_key: with open(key_path, 'rb') as f: return f.read()
ReadKeyFile(t) ==
    /\ key_calls[t].pc = "read"
    /\ key_calls' = [key_calls EXCEPT
          ![t].key = key_files[key_calls[t].key_version],
          ![t].metadata = IdleKeyCall.metadata,
          ![t].pc = "done"]
    /\ ks_hist' = Issued(ks_hist, key_calls[t].key_version,
                         key_files[key_calls[t].key_version])
    /\ UNCHANGED <<ks_mode, metadata, key_files, entropy, ks_out>>
    /\ UNCHANGED <<clock, auditVars, redactVars, log_calls, pii_held>>
    /\ UNCHANGED <<cipherVars, docVars, vaultVars, rbacVars>>

\* rotate_key() is entered
StartRotateKey(t) ==
    /\ KeyCallFree(t)
    /\ key_calls' = [key_calls EXCEPT ![t] =
          [IdleKeyCall EXCEPT !.op = "rotate_key", !.pc = "load"]]
    /\ UNCHANGED <<keyVars, clock, auditVars, redactVars, log_calls, pii_held>>
    /\ UNCHANGED <<cipherVars, docVars, vaultVars, rbacVars>>

\* The newer of two versions, None being older than any
Newer(a, b) ==
    IF a = NoneVal THEN b
    ELSE IF b = NoneVal THEN a
    ELSE IF VersionNum(a) >= VersionNum(b) THEN a ELSE b

\* rotate_key: the loaded metadata is changed and saved, and the new version
\* is returned
SaveRotatedMetadata(t) ==
    /\ key_calls[t].pc = "save"
    /\ key_calls[t].op = "rotate_key"
    /\ LET r == LocalRotateKey([metadata |-> key_calls[t].metadata,
                                key_files |-> key_files,
                                entropy |-> entropy])
       IN /\ metadata' = r.ks.metadata
          /\ key_calls' = [key_calls EXCEPT
                ![t].version = r.version,
                ![t].metadata = IdleKeyCall.metadata,
                ![t].pc = "done"]
          /\ ks_hist' = [ks_hist EXCEPT
                            !.rotated = Newer(ks_hist.rotated, r.version)]
    /\ UNCHANGED <<ks_mode, key_files, entropy, ks_out>>
    /\ UNCHANGED <<clock, auditVars, redactVars, log_calls, pii_held>>
    /\ UNCHANGED <<cipherVars, docVars, vaultVars, rbacVars>>

\* get_current_version(): one read of key_metadata.json
ReadCurrentVersion(t) ==
    /\ KeyCallFree(t)
    /\ key_calls' = [key_calls EXCEPT ![t] =
          [IdleKeyCall EXCEPT !.op = "get_current_version",
                              !.pc = "done",
                              !.version = metadata.current_version,
                              !.floor = ks_hist.rotated]]
    /\ UNCHANGED <<keyVars, clock, auditVars, redactVars, log_calls, pii_held>>
    /\ UNCHANGED <<cipherVars, docVars, vaultVars, rbacVars>>

\* ------------------------------------------------------------------------
\* Direct callers of PIIVault.encrypt_pii / decrypt_pii (privacy/pii_vault.py)
\* ------------------------------------------------------------------------
\* The entry a caller got from encrypt_pii and still holds, with the
\* arguments of that call
InitHeld ==
    pii_held = [r |-> [isnone |-> TRUE, entry |-> << >>],
                original_text |-> "", associated_data |-> NoDict]

\* vault.encrypt_pii(original_text, associated_data); associated_data
\* defaults to None
EncryptPii(original_text, associated_data) ==
    /\ LET r == encrypt_pii(vault, original_text, associated_data,
                            Len(vault_db) + 1)
       IN /\ pii_held' = [r |-> r, original_text |-> original_text,
                          associated_data |-> associated_data]
          /\ vault_out' = IF r.isnone
                          THEN VaultOut("encrypt_pii", 0, "none", "", "disabled")
                          ELSE VaultOut("encrypt_pii", r.entry.id, "entry", "", "ok")
    /\ UNCHANGED <<pii_mode, vault, vault_db, now, clock, auditVars, keyVars>>
    /\ UNCHANGED <<cipherVars, docVars, rbacVars, redactVars, log_calls, key_calls>>

\* vault.decrypt_pii(entry) on the entry encrypt_pii returned
DecryptHeldPii ==
    /\ ~pii_held.r.isnone
    /\ LET r == decrypt_pii(vault, pii_held.r.entry)
       IN vault_out' = VaultOut("decrypt_held", pii_held.r.entry.id,
                                IF r.ok THEN "text" ELSE "raise",
                                r.text, r.cause)
    /\ UNCHANGED <<pii_mode, vault, vault_db, now, clock, auditVars, keyVars>>
    /\ UNCHANGED <<cipherVars, docVars, rbacVars, extVars>>

\* ------------------------------------------------------------------------
\* A stored document whose "_encrypted_" values are exchanged
\* (security/field_encryption.py reads them back as they are)
\* ------------------------------------------------------------------------
\* Someone with write access to the collection exchanges the stored values
\* of _encrypted_a and _encrypted_b.
SwapEncrypted(a, b) ==
    /\ a # b
    /\ a \in DOMAIN doc.enc
    /\ b \in DOMAIN doc.enc
    /\ doc' = [doc EXCEPT !.enc = [x \in DOMAIN doc.enc |->
                                     IF x = a THEN doc.enc[b]
                                     ELSE IF x = b THEN doc.enc[a]
                                     ELSE doc.enc[x]]]
    /\ UNCHANGED <<doc_call, clock, auditVars, keyVars, cipherVars, vaultVars, rbacVars, extVars>>

\* ------------------------------------------------------------------------
\* Changes made in the audit collection to what the chain hash leaves out
\* (security/audit_logger.py: _compute_hash covers timestamp, actor_id,
\* action, target_id and the previous hash)
\* ------------------------------------------------------------------------
\* What a change of the stored log leaves in the history
Changed(id) ==
    [audit_hist EXCEPT
        !.pristine = FALSE, !.untampered = FALSE,
        !.intact = audit_hist.intact /\ audit_hist.tampered = 0,
        !.tampered = id,
        !.ntampers = @ + 1]

\* Someone with write access to the collection flips a stored success flag.
TamperSuccess(i) ==
    /\ i \in 1..Len(store)
    /\ audit_hist.ntampers < MaxTampers
    /\ store' = [store EXCEPT ![i].success = ~store[i].success]
    /\ audit_hist' = Changed(store[i].id)
    /\ verified' = NoVerify
    /\ audit_out' = NoAuditOut
    /\ UNCHANGED <<last_hash, clock, keyVars, cipherVars, docVars, vaultVars, rbacVars, extVars>>

\* ... or rewrites a stored justification.
TamperJustification(i, justification) ==
    /\ i \in 1..Len(store)
    /\ audit_hist.ntampers < MaxTampers
    /\ store[i].justification # justification
    /\ store' = [store EXCEPT ![i].justification = justification]
    /\ audit_hist' = Changed(store[i].id)
    /\ verified' = NoVerify
    /\ audit_out' = NoAuditOut
    /\ UNCHANGED <<last_hash, clock, keyVars, cipherVars, docVars, vaultVars, rbacVars, extVars>>

\* ... or deletes the most recent entry, leaving the older ones.
RemoveNewest ==
    /\ Len(store) >= 2
    /\ audit_hist.ntampers < MaxTampers
    /\ store' = SubSeq(store, 1, Len(store) - 1)
    /\ audit_hist' = Changed(store[Len(store)].id)
    /\ verified' = NoVerify
    /\ audit_out' = NoAuditOut
    /\ UNCHANGED <<last_hash, clock, keyVars, cipherVars, docVars, vaultVars, rbacVars, extVars>>

\* Everything this part of the model adds to the state
InitExt ==
    /\ InitRedact
    /\ InitLogCalls
    /\ InitKeyCalls
    /\ InitHeld

\* ------------------------------------------------------------------------
\* Specifications
\* ------------------------------------------------------------------------
Plaintexts ==
    {PyStr("hello"), PyStr("123"), PyBytes("hello", TRUE),
     PyBytes("\\xff", FALSE), PyJson("dict", "{\"a\": 1}")}

CallerAad == {EmptyDict, [k \in {"session"} |-> "s1"]}

\* get_key_store() builds the variant the environment selects
KeyStoreModes == {"local", "aws", "gcp"}

Init ==
    /\ InitAudit
    /\ InitRbac
    /\ InitExt
    /\ InitVault
    /\ pii_mode = PII_STORAGE_MODE
    /\ doc_call = NoDocCall
    /\ InitKeys
    /\ InitCipherVars
    /\ doc = PlainDoc(EmptyDict)
    /\ ks_mode \in KeyStoreModes

\* KEY_STORE_MODE = os.getenv('KEY_STORE_MODE', 'local')
InitLocal ==
    /\ InitAudit
    /\ InitRbac
    /\ InitExt
    /\ InitVault
    /\ pii_mode = PII_STORAGE_MODE
    /\ doc_call = NoDocCall
    /\ InitKeys
    /\ InitCipherVars
    /\ doc = PlainDoc(EmptyDict)
    /\ ks_mode = "local"

\* A caller holding one of the initial documents
InitDoc ==
    /\ InitAudit
    /\ InitRbac
    /\ InitExt
    /\ InitVault
    /\ pii_mode = PII_STORAGE_MODE
    /\ doc_call = NoDocCall
    /\ InitKeys
    /\ InitCipherVars
    /\ doc \in InitialDocs
    /\ ks_mode = "local"

\* The vault in either storage mode
InitModes ==
    /\ InitAudit
    /\ InitRbac
    /\ InitExt
    /\ InitVault
    /\ pii_mode \in StorageModes
    /\ doc_call = NoDocCall
    /\ InitKeys
    /\ InitCipherVars
    /\ doc = PlainDoc(EmptyDict)
    /\ ks_mode = "local"

\* The audit log on its own
SpecAudit == InitLocal /\ [][NextAudit]_vars

\* The reasons callers give: none, empty, blank, too short once trimmed,
\* and long enough
Justifications ==
    {NoneVal, "", "          ", "   too short   ", "legal hold request 17"}

\* The calls of the audit log's callers, with insert failures
NextAuditOps ==
    \/ \E actor_id \in Actors, target_id \in Targets :
          Log("read", TRUE, actor_id, target_id, NoneVal)
    \/ \E actor_id \in Actors, target_id \in Targets :
          LogInsertFails("read", TRUE, actor_id, target_id, NoneVal)
    \/ \E target_id \in Targets, j \in Justifications :
          LogDecrypt(target_id, j, TRUE)
    \/ \E target_id \in Targets, j \in Justifications :
          LogDelete(target_id, j, TRUE)
    \/ \E action \in {NoneVal, "read"}, insert_ok \in BOOLEAN :
          QueryLogs(action, insert_ok)
    \/ Restart

SpecAuditOps == InitLocal /\ [][NextAuditOps]_vars

\* The vault with passing time, a changed ciphertext and a changed
\* VAULT_KEY_VERSION
NextVault ==
    \/ StoreEncryptedPii("ssn 123-45-6789", "s1", "u1")
    \/ \E vault_id \in 1..(MaxVaultEntries + 1) : RetrieveEncryptedPii(vault_id)
    \/ \E i \in 1..MaxVaultEntries : DecryptPii(i)
    \/ Tick
    \/ \E i \in 1..MaxVaultEntries : TamperVaultCiphertext(i)
    \/ \E v \in {VAULT_KEY_VERSION, "v2"} : VaultRestart(v)

SpecVault == InitModes /\ [][NextVault]_vars

\* Response filtering and role checks
NextRbac ==
    \/ \E data \in Responses, user_roles \in RoleLists :
          FilterResponseByRole(data, user_roles)
    \/ \E user_role \in ALL_ROLES, required_role \in ALL_ROLES :
          HasPermission(user_role, required_role)

SpecRbac == InitLocal /\ [][NextRbac]_vars

\* Field encryption over the local key store, with changes to stored values
NextCipher ==
    \/ \E p \in Plaintexts, kv \in {NoneVal, "v2"}, ad \in CallerAad :
          EncryptField(p, kv, ad)
    \/ \E i \in 1..MaxValues, e \in {NoneVal, "", "v2"} :
          DecryptField(i, e)
    \/ \E i \in 1..MaxValues : TamperCiphertext(i)
    \/ \E i \in 1..MaxValues : ReencodeCiphertext(i)
    \/ \E i \in 1..MaxValues : TamperNonce(i)
    \/ \E i \in 1..MaxValues : ReencodeNonce(i)
    \/ \E i \in 1..MaxValues, k \in {"session", "timestamp"} :
          TamperAad(i, k, "s2")
    \/ \E i \in 1..MaxValues, k \in {"session", "timestamp"} :
          DropAad(i, k)

SpecCipher == InitLocal /\ [][NextCipher]_vars

\* The key store variants with rotation, key loss and field encryption
NextKeys ==
    \/ \E v \in AllVersions : GetDataKey(v)
    \/ RotateKey
    \/ \E v \in AllVersions : LoseKeyFile(v)
    \/ \E p \in {PyStr("hello"), PyStr("123")}, kv \in {NoneVal, "v1"} :
          EncryptField(p, kv, EmptyDict)
    \/ \E i \in 1..MaxValues : DecryptField(i, NoneVal)

SpecKeys == Init /\ [][NextKeys]_vars

\* Document encryption over the local key store
NextDoc ==
    \/ \E names \in FieldLists, ad \in CallerAad :
          EncryptDocumentFields(names, ad)
    \/ \E names \in FieldLists \cup {NoList} : DecryptDocumentFields(names)

SpecDoc == InitDoc /\ [][NextDoc]_vars

\* ------------------------------------------------------------------------
\* Claims about the calls on the audit log
\* ------------------------------------------------------------------------

\* C12: every stored entry with action decrypt or delete carries a
\* justification of at least MinJustification characters after trimming,
\* and a log_decrypt or log_delete call given none (or a shorter one) raised
\* and left the log as it was.
C12_JustificationRequired ==
    /\ \A i \in 1..Len(store) :
          store[i].action \in {"decrypt", "delete"} =>
             ~TooShort(store[i].justification)
    /\ (audit_out.op \in {"log_decrypt", "log_delete"}
          /\ TooShort(audit_out.just)) =>
          /\ audit_out.raised
          /\ audit_out.wrote = 0
          /\ store = audit_out.before_store

C14_QueryAppendsOneEntry ==
    (audit_out.op = "query_logs" /\ ~audit_out.raised) =>
       /\ Len(store) = Len(audit_out.before_store) + 1
       /\ SubSeq(store, 1, Len(audit_out.before_store)) = audit_out.before_store
       /\ store[Len(store)].action = "audit_query"

\* ------------------------------------------------------------------------
\* Claims about the PII vault
\* ------------------------------------------------------------------------

\* The stored entry the last vault call was about (when there is one)
VaultHit == SelectSeq(vault_db, LAMBDA e : e.entry.id = vault_out.id)

\* C15: neither decrypt_pii nor retrieve_encrypted_pii returns the text of
\* an entry at a time later than the entry's expires_at.
C15_ExpiredEntryUnreadable ==
    (vault_out.op \in {"decrypt_pii", "retrieve"} /\ vault_out.kind = "text") =>
       \A i \in 1..Len(VaultHit) : ~(VaultHit[i].entry.expires_at < vault_out.at)

\* C16: for an entry stored by store_encrypted_pii, unchanged since and
\* read by the vault with the key and key_version that stored it,
\* retrieve_encrypted_pii returns the original text at every time before
\* expires_at and None at every time after expires_at.
C16_RetrieveBeforeAndAfterExpiry ==
    (vault_out.op = "retrieve" /\ pii_mode = "store_encrypted_with_key") =>
       \A i \in 1..Len(VaultHit) :
          LET e == VaultHit[i]
          IN (~e.tampered /\ e.entry.key_version = vault_out.key_version) =>
                /\ vault_out.at < e.entry.expires_at =>
                      /\ vault_out.kind = "text"
                      /\ vault_out.text = e.original_text
                /\ vault_out.at > e.entry.expires_at =>
                      vault_out.kind = "none"

\* An untouched entry retrieved on the day after it expired
C16_Witness ==
    /\ vault_out.op = "retrieve"
    /\ \E i \in 1..Len(VaultHit) :
          /\ ~VaultHit[i].tampered
          /\ VaultHit[i].entry.key_version = vault_out.key_version
          /\ vault_out.at = VaultHit[i].entry.expires_at + 1
          /\ vault_out.kind = "none"

\* C17: what retrieve_encrypted_pii returns when decryption failed (key
\* version mismatch, authentication failure) is not the None it returns
\* for a missing or expired entry.
C17_HardErrorDistinguishable ==
    (vault_out.op = "retrieve"
       /\ vault_out.cause \in {"key_version", "invalid_tag"}) =>
       vault_out.kind # "none"

\* ------------------------------------------------------------------------
\* Claims about roles and response filtering
\* ------------------------------------------------------------------------

\* Rank of a declared role: how many roles it can act as
Rank(role) == Cardinality(HIERARCHY[role])

\* The highest-ranked declared role of a list (reader for a list with none)
TopRole(user_roles) ==
    LET held == Range(user_roles) \cap ALL_ROLES
    IN IF held = {} THEN READER
       ELSE CHOOSE r \in held : \A q \in held : Rank(q) <= Rank(r)

\* The caller's role set is not the wildcard
Restricted(call) ==
    /\ call.done
    /\ call.user_roles # << >>
    /\ "*" \notin get_allowed_fields_for_role(TopRole(call.user_roles))

\* Two responses with the same keys that agree on every key the role may see
SameVisible(call, other) ==
    /\ DOMAIN call.data = DOMAIN other.data
    /\ \A key \in DOMAIN call.data :
          key \in get_allowed_fields_for_role(TopRole(call.user_roles)) =>
             call.data[key] = other.data[key]

\* C18: for a caller whose highest role has a non-wildcard allowed set the
\* result has exactly the keys of the input, every key outside the allowed
\* set holds the redaction marker, and two inputs that differ only in the
\* values of disallowed keys give the same result.
C18_NoLeakOutsideAllowedSet ==
    /\ Restricted(rbac_out.last) =>
          LET call == rbac_out.last
              allowed == get_allowed_fields_for_role(TopRole(call.user_roles))
          IN /\ DOMAIN call.result = DOMAIN call.data
             /\ \A key \in DOMAIN call.data \ allowed :
                   call.result[key] = REDACTED
    /\ (Restricted(rbac_out.last) /\ rbac_out.prev.done
          /\ TopRole(rbac_out.prev.user_roles) = TopRole(rbac_out.last.user_roles)
          /\ SameVisible(rbac_out.last, rbac_out.prev)) =>
          rbac_out.last.result = rbac_out.prev.result

\* What filtering by one role's allowed set gives
FilteredFor(data, role) ==
    ApplyAllowed(data, get_allowed_fields_for_role(role))

\* C19: the result is the one for the highest-ranked role of the list,
\* whatever the order and repetition of the roles (two calls with the same
\* data and the same set of roles give the same result), and it is the data
\* itself when that role's set is the wildcard.
C19_HighestRoleDecides ==
    /\ (rbac_out.last.done /\ rbac_out.last.user_roles # << >>) =>
          LET call == rbac_out.last
              top == TopRole(call.user_roles)
          IN /\ call.result = FilteredFor(call.data, top)
             /\ "*" \in get_allowed_fields_for_role(top) =>
                   call.result = call.data
    /\ (rbac_out.last.done /\ rbac_out.prev.done
          /\ rbac_out.last.data = rbac_out.prev.data
          /\ Range(rbac_out.last.user_roles) = Range(rbac_out.prev.user_roles)) =>
          rbac_out.last.result = rbac_out.prev.result

\* Two calls on the same data with the same two roles in opposite order,
\* the lower role first in the later call
C19_Witness ==
    /\ rbac_out.last.done /\ rbac_out.prev.done
    /\ rbac_out.last.data = rbac_out.prev.data
    /\ rbac_out.last.user_roles = <<READER, ANALYST>>
    /\ rbac_out.prev.user_roles = <<ANALYST, READER>>
    /\ "transcript" \in DOMAIN rbac_out.last.data
    /\ rbac_out.last.result["transcript"] = REDACTED

\* C20: the effective-role sets form a chain from all four roles (system)
\* down to the role itself (reader), each higher role's set containing
\* every lower role's; has_permission(u, r) is r \in effective(u), which
\* makes it reflexive and transitive.
C20_RoleChain ==
    /\ get_effective_roles(SYSTEM) = ALL_ROLES
    /\ get_effective_roles(READER) = {READER}
    /\ \A a \in ALL_ROLES, b \in ALL_ROLES :
          \/ get_effective_roles(a) \subseteq get_effective_roles(b)
          \/ get_effective_roles(b) \subseteq get_effective_roles(a)
    /\ \A a \in ALL_ROLES, b \in ALL_ROLES :
          a # b => get_effective_roles(a) # get_effective_roles(b)
    /\ \A a \in ALL_ROLES, b \in ALL_ROLES :
          Rank(a) >= Rank(b) =>
             get_effective_roles(b) \subseteq get_effective_roles(a)
    /\ \A a \in ALL_ROLES : has_permission(a, a)
    /\ \A a \in ALL_ROLES, b \in ALL_ROLES, c \in ALL_ROLES :
          (has_permission(a, b) /\ has_permission(b, c)) => has_permission(a, c)
    /\ rbac_perm.done =>
          (rbac_perm.result <=>
              rbac_perm.required_role
                 \in get_effective_roles(rbac_perm.user_role))

\* An admin asked for the analyst's permissions and got them
C20_Witness ==
    /\ rbac_perm.done
    /\ rbac_perm.user_role = ADMIN
    /\ rbac_perm.required_role = ANALYST
    /\ rbac_perm.result

\* ------------------------------------------------------------------------
\* Claims about documents with encrypted fields
\* ------------------------------------------------------------------------

\* The names an encrypt_document_fields call found present and not None
EncryptedByCall ==
    {n \in Range(doc_call.enc.names) :
        /\ n \in DOMAIN doc_call.enc.before.fields
        /\ doc_call.enc.before.fields[n] # PyNone}

\* The names of EncryptedByCall a decrypt_document_fields call selects
SelectedByCall ==
    IF doc_call.dec.names = NoList THEN EncryptedByCall
    ELSE Range(doc_call.dec.names) \cap EncryptedByCall

Decrypted == values[dec.idx]

\* C4: decrypt_field(encrypt_field(P, A)) returns a value equal to P, for
\* text, bytes and structured data, text that is itself valid JSON included.
C4_RoundTrip ==
    (dec.done /\ Decrypted.ev = Decrypted.orig /\ dec.expected = NoneVal)
        => (dec.ok /\ dec.value = Decrypted.plaintext)

\* C5 as stated: decrypt_field fails whenever the stored ciphertext, nonce or
\* associated_data differs from what encrypt_field produced, or an
\* expected_key_version is supplied and differs from the stored key_version.
C5_AnyStoredChangeFails ==
    dec.done =>
        ((\/ Decrypted.ev.ciphertext # Decrypted.orig.ciphertext
          \/ Decrypted.ev.nonce # Decrypted.orig.nonce
          \/ Decrypted.ev.associated_data # Decrypted.orig.associated_data
          \/ (dec.expected # NoneVal
              /\ dec.expected # Decrypted.ev.key_version))
            => (~dec.ok /\ dec.value = NoPlain))

\* The base64 half of C5 as stated: a stored ciphertext or nonce text that
\* differs from the one encrypt_field produced makes decrypt_field fail.
StoredTextChangeFails ==
    (/\ dec.done
     /\ \/ Decrypted.ev.ciphertext # Decrypted.orig.ciphertext
        \/ Decrypted.ev.nonce # Decrypted.orig.nonce)
        => ~dec.ok

\* C5 as amended: decrypt_field fails, returning no plaintext, whenever the
\* bytes the stored ciphertext or nonce decode to, or the serialized
\* associated_data, differ from what encrypt_field produced, or a non-empty
\* expected_key_version differs from the stored key_version.
C5_DecodedChangeFails ==
    dec.done =>
        ((\/ B64Decode(Decrypted.ev.ciphertext)
                # B64Decode(Decrypted.orig.ciphertext)
          \/ B64Decode(Decrypted.ev.nonce) # B64Decode(Decrypted.orig.nonce)
          \/ AadBytes(Decrypted.ev.associated_data)
                # AadBytes(Decrypted.orig.associated_data)
          \/ (Truthy(dec.expected)
              /\ dec.expected # Decrypted.ev.key_version))
            => (~dec.ok /\ dec.value = NoPlain))

\* C5 witness: a decrypt_field call on a value whose associated_data was
\* changed in storage, which failed.
C5_Witness ==
    /\ dec.done
    /\ dec.expected = NoneVal
    /\ B64Decode(Decrypted.ev.ciphertext) = B64Decode(Decrypted.orig.ciphertext)
    /\ B64Decode(Decrypted.ev.nonce) = B64Decode(Decrypted.orig.nonce)
    /\ Decrypted.ev.associated_data # Decrypted.orig.associated_data
    /\ ~dec.ok

\* C6: with the local key store, a value encrypted before a rotation still
\* decrypts to its original plaintext after it, with the key it was
\* encrypted under.
C6_DecryptsAfterRotation ==
    (/\ ks_mode = "local"
     /\ ~ks_hist.lost
     /\ dec.done
     /\ Decrypted.ev.key_version # metadata.current_version)
        => /\ dec.ok
           /\ dec.value = Decrypted.plaintext
           /\ key_files[Decrypted.ev.key_version] = Decrypted.key

\* The part of C6 that is about rotation: the old version's key is still
\* the one that encrypted the value, and decryption succeeds.
OldKeyStillDecrypts ==
    (/\ ks_mode = "local"
     /\ ~ks_hist.lost
     /\ dec.done
     /\ Decrypted.ev.key_version # metadata.current_version)
        => /\ dec.ok
           /\ dec.value = DecodePlaintext(PlaintextBytes(Decrypted.plaintext))
           /\ key_files[Decrypted.ev.key_version] = Decrypted.key

\* C7: in every key store variant, get_data_key(v) returns the same key
\* bytes on every call for the same version v.
C7_SameKeyEveryCall ==
    ~ks_hist.lost =>
        \A v \in AllVersions : Cardinality(ks_hist.issued[v]) <= 1

\* C8: in every key store variant, once rotate_key() has returned v,
\* get_current_version() returns v, and v is not the version that was
\* current before the call.
C8_RotatedIsCurrent ==
    ks_hist.rotated # NoneVal =>
        /\ get_current_version(KS) = ks_hist.rotated
        /\ ks_hist.rotated # ks_hist.before

\* C9: once data has been encrypted under v, get_data_key(v) on a store
\* whose key material for v is missing fails instead of generating a key.
C9_KeyLossIsFatal ==
    (ks_out.op = "get_data_key" /\ ks_out.missing /\ ks_out.was_used)
        => ks_out.error

\* C10: a field name is listed in _encryption_metadata.encrypted_fields
\* exactly when the document has the key _encrypted_<name>, after any
\* sequence of encrypt_document_fields and decrypt_document_fields calls.
C10_MetadataMatchesPresence ==
    \A f \in FieldNames :
        (doc.meta.present /\ f \in Range(doc.meta.encrypted_fields))
            <=> (f \in DOMAIN doc.enc)

\* ------------------------------------------------------------------------
\* Claims about the audit log
\* ------------------------------------------------------------------------

\* C1: a log of N >= 1 entries written by sequential log() calls of one
\* logger into an empty store, with no stored entry modified, verifies as
\* intact on that same logger.
C1_FreshLogVerifies ==
    (verified.done /\ verified.pristine /\ verified.n >= 1) => verified.ok

\* C2: every stored entry's prev_hash is the entry_hash of the entry written
\* immediately before it, and only the first entry has prev_hash None, also
\* when a newly constructed logger wrote some of the entries.
C2_PrevHashLinksEveryEntry ==
    audit_hist.untampered =>
        \A i \in 1..Len(store) :
            store[i].prev_hash =
                IF i = 1 THEN NoneVal ELSE store[i - 1].entry_hash

\* C3: once a log verified as intact, changing the stored action or
\* timestamp of a single entry makes the next verification return False; the
\* break is reported at that entry or a later one, and it is the first entry
\* of the walk that fails a check.
C3_TamperDetected ==
    (verified.done /\ verified.after_tamper # 0) =>
        /\ ~verified.ok
        /\ verified.tampered_pos >= 1
        /\ verified.break_pos >= verified.tampered_pos
        /\ LET logs == Limit(SortByTimestamp(store), DefaultLimit)
           IN \A j \in 1..(verified.break_pos - 1) :
                 /\ logs[j].prev_hash =
                        (IF j = 1 THEN NoneVal ELSE logs[j - 1].entry_hash)
                 /\ compute_hash(logs[j]) = logs[j].entry_hash

\* C3 witness: a verification that ran on a once-intact log after one entry
\* was changed, and reported the break.
C3_Witness ==
    /\ verified.done
    /\ verified.after_tamper # 0
    /\ ~verified.ok
    /\ verified.break_id = verified.after_tamper

\* ------------------------------------------------------------------------
\* Specifications of the PII redactor
\* ------------------------------------------------------------------------
\* Texts whose detected spans are disjoint
DisjointTexts ==
    {"", "hello", "mail a@b.com or c@d.org", "call 555-123-4567",
     "ssn 123-45-6789", "card 1234 5678 1234 5678", "ip 10.0.0.1"}

\* Texts in which one detected span lies inside another
OverlapTexts ==
    {"+1 555-123-4567 ok", "ID-1234567890 ok", "5551234567@example.com"}

\* One caller at a time: text_processor redacts a text and validates what
\* came back; validate_redaction is also called on texts as they are
NextRedact ==
    \/ \E text \in DisjointTexts \cup OverlapTexts : StartRedact(1, text)
    \/ RedactStep(1)
    \/ /\ redact_calls[1].pc = "done"
       /\ ValidateRedaction(redact_calls[1].text, redact_calls[1].result.text)
    \/ \E text \in DisjointTexts : ValidateRedaction(text, text)

SpecRedact == InitLocal /\ [][NextRedact]_vars

\* Two request threads sharing the singleton of get_pii_redactor()
RaceTexts == {"mail a@b.com or c@d.org", "call 555-123-4567", "hello"}

NextRedactRace ==
    \E t \in Threads :
        \/ \E text \in RaceTexts : StartRedact(t, text)
        \/ RedactStep(t)

SpecRedactRace == InitLocal /\ [][NextRedactRace]_vars

\* ------------------------------------------------------------------------
\* Claims about the PII redactor
\* ------------------------------------------------------------------------
\* How often a token occurs in a text
Occurrences(text, token) ==
    Cardinality({i \in 1..Len(text) :
                    /\ i + Len(token) - 1 <= Len(text)
                    /\ SubSeq(text, i, i + Len(token) - 1) = token})

\* "[EMAIL_", the part every placeholder of a category starts with
TokenPrefix(category) ==
    SliceTo(Placeholder(category, 1), Len(Placeholder(category, 1)) - 2)

\* The placeholders of each category in a result are numbered 1..k, k being
\* the category's count in the metadata
NumberedFromOne(result) ==
    \A c \in CounterKeys :
        LET k == result.counts[MetadataKey(c)]
        IN /\ Occurrences(result.text, TokenPrefix(c)) = k
           /\ \A n \in 1..k : Occurrences(result.text, Placeholder(c, n)) = 1

\* C21: in the result of every redact_pii call the placeholders of each
\* category are numbered 1, 2, ..., k without gaps, k being the category's
\* count in the call's metadata, whatever other calls run on the shared
\* redactor before or at the same time.
C21_NumberedPerCall ==
    \A t \in Threads :
        redact_calls[t].pc = "done" => NumberedFromOne(redact_calls[t].result)

\* C22: validate_redaction returns False whenever one of the patterns of the
\* regex pass (email, phone, SSN, credit card, id, IP address) still matches
\* in the redacted text, and True only when none matches.
C22_ValidateSeesEveryPattern ==
    redact_out.called =>
        (redact_out.result <=> Matches(redact_out.redacted) = << >>)

\* The detected spans of a text, by start ascending
RECURSIVE InsertSpan(_, _)
InsertSpan(sorted, s) ==
    IF sorted = << >> THEN <<s>>
    ELSE IF Head(sorted).start <= s.start
         THEN <<Head(sorted)>> \o InsertSpan(Tail(sorted), s)
         ELSE <<s>> \o sorted

RECURSIVE SpansByStart(_)
SpansByStart(spans) ==
    IF spans = << >> THEN << >>
    ELSE InsertSpan(SpansByStart(Tail(spans)), Head(spans))

\* The groups of intersecting spans: each group as the stretch of text it
\* covers and the categories of the spans in it
RECURSIVE MergeSpans(_, _)
MergeSpans(groups, spans) ==
    IF spans = << >> THEN groups
    ELSE LET s == Head(spans)
             n == Len(groups)
         IN IF n > 0 /\ s.start < groups[n].end
            THEN MergeSpans([groups EXCEPT
                     ![n].end = IF s.end > @ THEN s.end ELSE @,
                     ![n].categories = @ \cup {s.category}], Tail(spans))
            ELSE MergeSpans(Append(groups, [start |-> s.start, end |-> s.end,
                                            categories |-> {s.category}]),
                            Tail(spans))

SpanGroups(text) == MergeSpans(<< >>, SpansByStart(Matches(text)))

\* The output from position pos of the original on: the original's text up
\* to the next group, one placeholder of the metadata map, and so on
RECURSIVE KeepsOutside(_, _, _, _, _)
KeepsOutside(out, original, pos, groups, placeholders) ==
    IF groups = << >> THEN out = SliceFrom(original, pos)
    ELSE LET g == Head(groups)
             outside == SubSeq(original, pos + 1, g.start)
         IN \E p \in placeholders :
               /\ StartsWith(out, outside \o p)
               /\ KeepsOutside(SliceFrom(out, Len(outside) + Len(p)),
                               original, g.end, Tail(groups), placeholders)

\* C26: for every text, also one whose detected spans intersect, the regex
\* pass leaves the characters outside all spans unchanged and in order, puts
\* one placeholder per group of intersecting spans, and every placeholder of
\* the metadata map occurs exactly once in the redacted text.
C26_OverlappingSpans ==
    redact_calls[1].pc = "done" =>
        LET call == redact_calls[1]
        IN /\ KeepsOutside(call.result.text, call.text, 0,
                           SpanGroups(call.text), call.result.placeholders)
           /\ \A p \in call.result.placeholders :
                 Occurrences(call.result.text, p) = 1

\* ------------------------------------------------------------------------
\* Specifications of concurrent callers
\* ------------------------------------------------------------------------
\* Two request threads writing audit entries through one AuditLogger
NextLogRace ==
    \E t \in Threads :
        \/ \E action \in {"read", "decrypt"} :
              BuildLogEntry(t, action, "u1", "t1")
        \/ ComputeEntryHash(t)
        \/ ReadPrevHash(t)
        \/ InsertOne(t)
        \/ UpdateLastHash(t)

SpecLogRace == InitLocal /\ [][NextLogRace]_vars

\* Two threads calling the local key store
NextKeysRace ==
    \E t \in Threads :
        \/ \E v \in {KEY_VERSION, VersionStr(2)} : CheckKeyExists(t, v)
        \/ WriteKeyFile(t)
        \/ LoadMetadata(t)
        \/ SaveKeyMetadata(t)
        \/ ReadKeyFile(t)
        \/ StartRotateKey(t)
        \/ SaveRotatedMetadata(t)
        \/ ReadCurrentVersion(t)

SpecKeysRace == InitLocal /\ [][NextKeysRace]_vars

\* ------------------------------------------------------------------------
\* Claims about concurrent callers
\* ------------------------------------------------------------------------
\* The hash of a stored entry, computed over a given previous hash
HashOver(e, prev) ==
    Sha256(IsoFormat(e.timestamp) \o e.actor_id \o e.action \o e.target_id
           \o OrEmpty(prev))

\* C23: when several callers run log() at the same time on one AuditLogger
\* the stored entries form a single chain: no two entries store the same
\* prev_hash, and each entry_hash was computed over the previous hash that
\* the entry stores as prev_hash.
C23_ConcurrentLogKeepsChain ==
    /\ \A i, j \in 1..Len(store) :
          i # j => store[i].prev_hash # store[j].prev_hash
    /\ \A i \in 1..Len(store) :
          store[i].entry_hash = HashOver(store[i], store[i].prev_hash)

\* C24: concurrent get_data_key(v) calls for a version without a key create
\* the key as one atomic step: every caller obtains the same key, the key
\* every later get_data_key(v) returns.
C24_KeyCreationAtomic ==
    \A v \in AllVersions : Cardinality(ks_hist.issued[v]) <= 1

\* C27: under any interleaving of rotate_key with get_data_key and
\* get_current_version on the local key store, a get_current_version call
\* never returns a version older than one rotate_key had returned before the
\* call began.
C27_CurrentVersionNeverBackwards ==
    \A t \in Threads :
        (/\ key_calls[t].op = "get_current_version"
         /\ key_calls[t].pc = "done"
         /\ key_calls[t].floor # NoneVal)
        => VersionNum(key_calls[t].version) >= VersionNum(key_calls[t].floor)

\* C25: in the local key store a key record has status active only if its
\* version is the current version; checked here in the case the claim singles
\* out: a version that rotation has replaced (one older than the current
\* version) is never recorded as active, even when its key is first created
\* after the rotation.
C25_ReplacedVersionNeverActive ==
    ks_mode = "local" =>
        \A v \in AllVersions :
            metadata.keys[v] = "active" =>
                VersionNum(v) >= VersionNum(metadata.current_version)

\* ------------------------------------------------------------------------
\* Specification and claim of direct vault callers
\* ------------------------------------------------------------------------
\* The associated data callers pass: none, an empty dict, a dict
VaultAad ==
    {NoDict, Dict(EmptyDict), Dict([k \in {"purpose"} |-> "troubleshooting"])}

NextVaultDirect ==
    \/ \E text \in {"ssn 123-45-6789", "hello"}, ad \in VaultAad :
          EncryptPii(text, ad)
    \/ DecryptHeldPii
    \/ Tick

SpecVaultDirect == InitModes /\ [][NextVaultDirect]_vars

\* C28: in store_encrypted_with_key mode, for every text and every
\* associated_data encrypt_pii accepts, None included, decrypt_pii applied by
\* the same vault to the entry encrypt_pii returned gives back the text.
C28_VaultRoundTrip ==
    (pii_mode = "store_encrypted_with_key" /\ vault_out.op = "decrypt_held")
    => /\ vault_out.kind = "text"
       /\ vault_out.text = pii_held.original_text

\* ------------------------------------------------------------------------
\* Specification and claim of exchanged encrypted fields
\* ------------------------------------------------------------------------
NextDocSwap ==
    \/ \E names \in {<<"transcript", "score">>, <<"score">>}, ad \in CallerAad :
          EncryptDocumentFields(names, ad)
    \/ \E names \in {NoList, <<"score">>} : DecryptDocumentFields(names)
    \/ SwapEncrypted("transcript", "score")

SpecDocSwap == InitDoc /\ [][NextDocSwap]_vars

\* The fields a decrypt_document_fields call restored from their
\* "_encrypted_" values
RestoredByCall ==
    {n \in DOMAIN doc_call.dec.arg.enc :
        /\ n \in DOMAIN doc_call.dec.result.fields
        /\ n \notin DOMAIN doc_call.dec.result.enc}

\* C29: decrypt_document_fields restores under field name F only a plaintext
\* that encrypt_document_fields encrypted for field F: when the stored values
\* of _encrypted_A and _encrypted_B were exchanged, decryption fails rather
\* than returning what was encrypted for A as field B.
C29_FieldBinding ==
    (doc_call.enc.done /\ doc_call.dec.done /\ doc_call.dec.ok) =>
        \A f \in RestoredByCall :
            \A g \in DOMAIN doc_call.enc.result.enc :
                doc_call.enc.result.enc[g] = doc_call.dec.arg.enc[f] => g = f

\* ------------------------------------------------------------------------
\* Specification and claim of changes outside the chain hash
\* ------------------------------------------------------------------------
NextAuditTamper ==
    \/ \E success \in BOOLEAN, justification \in {NoneVal, "ticket 4711 review"} :
          Log("decrypt", success, "u1", "t1", justification)
    \/ Restart
    \/ VerifyChainIntegrity
    \/ \E i \in 1..MaxEntries : TamperSuccess(i)
    \/ \E i \in 1..MaxEntries : TamperJustification(i, "routine")
    \/ RemoveNewest

SpecAuditTamper == InitLocal /\ [][NextAuditTamper]_vars

\* C30: any change to a stored audit log is detected: after an entry's
\* success or justification was changed (fields_accessed, actor_roles and
\* target_collection are left out of the hash in the same way), or the most
\* recent entry was removed, verification of the full log returns False.
C30_EveryChangeDetected ==
    (verified.done /\ ~audit_hist.untampered) => ~verified.ok

====
